---- MODULE Spec2Model ----
(***************************************************************************)
(* Discrete-event network simulator: hosts, one bidirectional link, the    *)
(* Go-Back-N sending flows (TCP Tahoe and FAST) and receiving flows, the   *)
(* report loop of the environment, and the router constructor.             *)
(*                                                                         *)
(* Time is virtual time in ms, an integer: every delay of the runs below   *)
(* (size / link_rate, link_delay, start_time, the retransmit timeout) is a *)
(* whole number of ms for the inputs drawn in Init.  Host.PROCESSING_TIME  *)
(* (1e-16 ms) is below half an ulp of every float >= 1.0, so now + 1e-16   *)
(* == now in the double arithmetic of the program once now >= 1 ms: the    *)
(* timeout is scheduled at the same instant, behind the events already     *)
(* scheduled for that instant.  Flows start at >= 1 ms.                    *)
(*                                                                         *)
(* The event queue is the queue of simpy.Environment: entries ordered by   *)
(* (time, priority, insertion order); one step pops the head, sets now and *)
(* runs the callbacks of that event, i.e. resumes the waiting generator up *)
(* to its next yield.  An uncaught exception of a process ends the run     *)
(* (halted # "").                                                          *)
(***************************************************************************)
EXTENDS Integers, Sequences, FiniteSets, TLC

(***************************************************************************)
(* Program constants.                                                      *)
(***************************************************************************)
DATA_PCK_SIZE == 1024
DATA_PACKET_LENGTH == 1024
ACKNOWLEDGMENT_PACKET_LENGTH == 64
FIN_PACKET_LENGTH == 64
ROUTING_UPDATE_PACKET_LENGTH == 1024
KB_TO_B == 1024
DUP_ACK == 3
DUP_GAP == 16
INIT_RETRANSMIT_TIMEOUT == 3000
INIT_RTT == 1000
INIT_BASE_RTT == 100000
INIT_SSTHRESH == 40
FAST_WINDOW == 20
FAST_ALPHA == 50
FAST_TIMEOUT == 500
FIN_SEQ == -1
\* the flow_id and the destination of the packets a router broadcasts
BROADCAST_ID == -1
\* Router.DYNAMIC_ROUTING_TIME, the length of a dynamic routing phase in ms
DYNAMIC_ROUTING_TIME == 100

\* Packet.PacketTypes
data_packet == 1
ack_packet == 2
routing_update_packet == 3
fin_packet == 4

PacketTypes == {data_packet, ack_packet, routing_update_packet, fin_packet}

\* None
NoneVal == -1

(***************************************************************************)
(* Bounds of the inputs.                                                   *)
(***************************************************************************)
\* data amounts are 512 * k bytes, k in 1..MaxHalfPkts
MaxHalfPkts == 6
\* the simulated duration in ms (env.duration)
Duration == 14000
\* the second flow starts up to StartSpread ms after the first
StartSpread == 120
\* the duration of the runs over the link of LongDelay ms
LongDuration == 102000

\* floats: the window is exact up to denominators of Precision and is held
\* up to WindowCap packets
Precision == 256
WindowCap == 4096

HostIds == {0, 1}
LinkId == 2
FlowIds == {3, 4}
RouterId == 2
\* the ids a host may come to hold a receiving flow for
RecvIds == FlowIds \cup {BROADCAST_ID}

Rates == {64}
Delays == {0, 10, 1600}
\* a link delay whose round trip is above the first base_rtt of a flow
LongDelay == INIT_BASE_RTT \div 2
CapsKB == {1, 2}
Intervals == {4000}

(***************************************************************************)
(* Rational numbers n/d (d > 0, reduced) for window_size and ssthresh,     *)
(* which the program holds as floats.                                      *)
(***************************************************************************)
RECURSIVE Gcd(_, _)
Gcd(a, b) == IF b = 0 THEN a ELSE Gcd(b, a % b)

Rat(n, d) == LET g == Gcd(n, d) IN [n |-> n \div g, d |-> d \div g]
RInt(k) == [n |-> k, d |-> 1]
RGeq(x, y) == x.n * y.d >= y.n * x.d
RFloor(x) == x.n \div x.d

\* the rounding of a float result: exact while the denominator is at most
\* Precision, else rounded down to a multiple of 1 / Precision
RRound(n, d) ==
    LET x == Rat(n, d)
    IN IF x.d <= Precision THEN x
       ELSE Rat((x.n \div x.d) * Precision + ((x.n % x.d) * Precision) \div x.d,
                Precision)

\* x + y and x * y as the program's floats hold them
RAdd(x, y) == RRound(x.n * y.d + y.n * x.d, x.d * y.d)
RMul(x, y) == RRound(x.n * y.n, x.d * y.d)

\* a window above WindowCap packets is held as WindowCap
RCap(x) == IF RFloor(x) >= WindowCap THEN RInt(WindowCap) ELSE x

(***************************************************************************)
(* Packets.                                                                *)
(***************************************************************************)
Packet(src, flow_id, dest, timestamp, length, packet_type, seq_num) ==
    [src |-> src, flow_id |-> flow_id, dest |-> dest, timestamp |-> timestamp,
     length |-> length, packet_type |-> packet_type, seq_num |-> seq_num]

DataPacket(src, flow_id, dest, timestamp, seq_num) ==
    Packet(src, flow_id, dest, timestamp, DATA_PACKET_LENGTH, data_packet, seq_num)

AckPacket(src, flow_id, dest, timestamp, seq_num) ==
    Packet(src, flow_id, dest, timestamp, ACKNOWLEDGMENT_PACKET_LENGTH,
           ack_packet, seq_num)

\* RoutingUpdatePacket.__init__: a packet with the attribute dist_estimates
RoutingUpdatePacket(src, flow_id, dest, timestamp, seq_num, dist_estimates) ==
    [src |-> src, flow_id |-> flow_id, dest |-> dest, timestamp |-> timestamp,
     length |-> ROUTING_UPDATE_PACKET_LENGTH,
     packet_type |-> routing_update_packet, seq_num |-> seq_num,
     dist_estimates |-> dist_estimates]

\* variant: a FIN packet of the length of a data packet
FINPacket_long(src, flow_id, dest, timestamp, seq_num) ==
    Packet(src, flow_id, dest, timestamp, DATA_PACKET_LENGTH, fin_packet, seq_num)

FINPacket(src, flow_id, dest, timestamp, seq_num) ==
    Packet(src, flow_id, dest, timestamp, FIN_PACKET_LENGTH, fin_packet, seq_num)

\* the accessors of Packet
get_source(p) == p.src
get_flow_id(p) == p.flow_id
get_destination(p) == p.dest
get_timestamp(p) == p.timestamp
get_length(p) == p.length
get_packet_type(p) == p.packet_type
get_seq_num(p) == p.seq_num

NoPkt == Packet(NoneVal, NoneVal, NoneVal, 0, 0, 0, 0)

(***************************************************************************)
(* The event queue.                                                        *)
(***************************************************************************)
Ev(t, pr, k, who, gen, pkt) ==
    [t |-> t, pr |-> pr, k |-> k, who |-> who, gen |-> gen, pkt |-> pkt]

\* an event of priority URGENT (0): the Initialize event of a new process and
\* the until event of run(until)
Urgent(t, k, who, gen, pkt) == Ev(t, 0, k, who, gen, pkt)

\* an event of priority NORMAL (1): a Timeout, a succeeded Event, a Condition,
\* an ended Process
Normal(t, k, who, gen, pkt) == Ev(t, 1, k, who, gen, pkt)

Before(x, e) == x.t < e.t \/ (x.t = e.t /\ x.pr <= e.pr)

\* heappush(queue, (now + delay, priority, next(eid), event))
Schedule(q, e) ==
    LET n == Cardinality({i \in 1..Len(q) : Before(q[i], e)})
    IN SubSeq(q, 1, n) \o <<e>> \o SubSeq(q, n + 1, Len(q))

\* Event.triggered
Triggered(ev) == ev # "pending"

VARIABLES cfg, now, queue, halted, finished, link, hosts, sf, rf, router, hist

vars == <<cfg, now, queue, halted, finished, link, hosts, sf, rf, router, hist>>

(***************************************************************************)
(* Construction.                                                           *)
(***************************************************************************)
\* the host a flow is put into, and the host at the other end of the link
FlowSrc(c) == c.src
FlowDst(c) == 1 - c.src

NoFlowCfg == [exists |-> FALSE, src |-> 0, cc |-> "Tahoe", data |-> 0, start |-> 0]

FlowCfgs(srcs, starts, datas, ccs) ==
    [exists : {TRUE}, src : srcs, cc : ccs, data : datas, start : starts]

DataAmounts == {512 * k : k \in 1..MaxHalfPkts}

\* the topologies and flows the runs start from
Configs ==
    \* one flow over one link between two hosts
    [rate : Rates, delay : Delays, cap_kb : CapsKB, interval : Intervals,
     duration : {Duration}, nrouters : {0}, ends : {<<0, 1>>},
     flows : {[f \in FlowIds |-> IF f = 3 THEN c ELSE NoFlowCfg] :
              c \in FlowCfgs({0}, {1000}, DataAmounts, {"Tahoe", "FAST"})}]
    \cup
    \* one flow over a link of a long delay
    [rate : Rates, delay : {LongDelay}, cap_kb : {1}, interval : Intervals,
     duration : {LongDuration}, nrouters : {0}, ends : {<<0, 1>>},
     flows : {[f \in FlowIds |-> IF f = 3 THEN c ELSE NoFlowCfg] :
              c \in FlowCfgs({0}, {1000}, {1024}, {"FAST"})}]
    \cup
    \* two flows in opposite directions over the same link
    [rate : Rates, delay : {0}, cap_kb : CapsKB, interval : Intervals,
     duration : {Duration}, nrouters : {0}, ends : {<<0, 1>>},
     flows : {[f \in FlowIds |-> IF f = 3 THEN c ELSE d] :
              c \in FlowCfgs({0}, {1000}, {1024 * MaxHalfPkts}, {"Tahoe"}),
              d \in FlowCfgs({1}, 1000..1000 + StartSpread, {2048}, {"Tahoe"})}]
    \cup
    \* a Tahoe flow against a FAST flow, whose first window overruns the buffer
    [rate : Rates, delay : {0}, cap_kb : {1}, interval : Intervals,
     duration : {Duration}, nrouters : {0}, ends : {<<0, 1>>},
     flows : {[f \in FlowIds |-> IF f = 3 THEN c ELSE d] :
              c \in FlowCfgs({0}, {1000}, {1024 * MaxHalfPkts}, {"Tahoe"}),
              d \in FlowCfgs({1}, {1000}, {4096}, {"FAST"})}]
    \cup
    \* two FAST flows in opposite directions, one with half a packet at its end
    [rate : Rates, delay : {0}, cap_kb : {2}, interval : Intervals,
     duration : {Duration}, nrouters : {0}, ends : {<<0, 1>>},
     flows : {[f \in FlowIds |-> IF f = 3 THEN c ELSE d] :
              c \in FlowCfgs({0}, {1000}, {1024 * MaxHalfPkts}, {"FAST"}),
              d \in FlowCfgs({1}, {1000}, {3584}, {"FAST"})}]
    \cup
    \* a Tahoe flow of twelve packets over a link of 100 ms, and one packet
    \* the other way whose ACK fills the buffer as a round of eight begins
    [rate : Rates, delay : {100}, cap_kb : {1}, interval : Intervals,
     duration : {Duration}, nrouters : {0}, ends : {<<0, 1>>},
     flows : {[f \in FlowIds |-> IF f = 3 THEN c ELSE d] :
              c \in FlowCfgs({0}, {1000}, {12288}, {"Tahoe"}),
              d \in FlowCfgs({1}, {1702}, {1024}, {"Tahoe"})}]
    \cup
    \* a Tahoe flow of twelve packets against a FAST flow of eight, whose
    \* Data packets hold back the ACKs of the Tahoe flow
    [rate : Rates, delay : {0}, cap_kb : {2}, interval : Intervals,
     duration : {Duration}, nrouters : {0}, ends : {<<0, 1>>},
     flows : {[f \in FlowIds |-> IF f = 3 THEN c ELSE d] :
              c \in FlowCfgs({0}, {1000}, {12288}, {"Tahoe"}),
              d \in FlowCfgs({1}, {1055}, {8192}, {"FAST"})}]
    \cup
    \* one FAST flow over a link whose round trip is above the first
    \* retransmit timeout, in a run that lasts beyond the timeout of its FIN
    [rate : Rates, delay : {1600}, cap_kb : {2}, interval : Intervals,
     duration : {20000}, nrouters : {0}, ends : {<<0, 1>>},
     flows : {[f \in FlowIds |-> IF f = 3 THEN c ELSE NoFlowCfg] :
              c \in FlowCfgs({0}, {1000}, {2048}, {"FAST"})}]
    \cup
    \* a link whose end points are given as host 1, host 0, and two flows
    \* that start at the same time from its two ends
    [rate : Rates, delay : {0}, cap_kb : {2}, interval : Intervals,
     duration : {Duration}, nrouters : {0}, ends : {<<1, 0>>},
     flows : {[f \in FlowIds |-> IF f = 3 THEN c ELSE d] :
              c \in FlowCfgs({0}, {1000}, {2048}, {"Tahoe"}),
              d \in FlowCfgs({1}, {1000}, {1024}, {"Tahoe"})}]
    \cup
    \* two flows of the same host
    [rate : Rates, delay : {0}, cap_kb : CapsKB, interval : Intervals,
     duration : {Duration}, nrouters : {0}, ends : {<<0, 1>>},
     flows : {[f \in FlowIds |-> IF f = 3 THEN c ELSE d] :
              c \in FlowCfgs({0}, {1000}, {2048}, {"Tahoe"}),
              d \in FlowCfgs({0}, {1000, 1008}, {1024}, {"Tahoe", "FAST"})}]
    \cup
    \* a topology with a router
    [rate : Rates, delay : {0}, cap_kb : {1}, interval : Intervals,
     duration : {Duration}, nrouters : {1}, ends : {<<RouterId, 1>>},
     flows : {[f \in FlowIds |-> NoFlowCfg]}]

\* Host.__init__
NewHost(h) ==
    [host_id |-> h, flows |-> {}, outgoing_packets |-> <<>>,
     incoming_packets |-> <<>>, send_packet_event |-> "pending",
     receive_packet_event |-> "pending", num_packets_sent |-> 0,
     num_packets_received |-> 0, out_pc |-> "new", in_pc |-> "new"]

\* Link.__init__ and Link.add_end_points
NewLink(rate, delay, cap_kb) ==
    [link_rate |-> rate, link_delay |-> delay, buffer_size |-> KB_TO_B * cap_kb,
     buffer |-> <<(<<>>), (<<>>)>>, buffer_used |-> <<0, 0>>,
     packet_drop |-> 0, transmitted_size |-> 0, busy |-> "pending",
     pc |-> "new", idx |-> 0]

\* Flow.__init__ and SendingFlow.__init__
NewSendingFlow(f, c) ==
    [exists |-> c.exists, cc |-> c.cc, src_host_id |-> FlowSrc(c),
     dest_host_id |-> FlowDst(c), data_amt |-> c.data, start_time |-> c.start,
     end_time |-> NoneVal, window_start_time |-> NoneVal,
     window_size |-> RInt(0), retransmit_timeout |-> INIT_RETRANSMIT_TIMEOUT,
     received_fin_event |-> "pending", received_batch_event |-> "pending",
     batch_gen |-> 0, batch_start |-> 1, window_start |-> 1,
     window_end |-> NoneVal, rtt |-> INIT_RTT,
     base_rtt |-> INIT_BASE_RTT, alpha |-> 0,
     fast_timeout |-> 2 * FAST_TIMEOUT,
     is_CA |-> FALSE, ssthresh |-> RInt(INIT_SSTHRESH), dup_ack |-> 0,
     last_dup |-> 0, received_packets |-> <<>>,
     receive_packet_event |-> "pending",
     run_pc |-> "new", mon_pc |-> "none", fast_pc |-> "none", sd_pc |-> "none",
     seq_num |-> 0, cond_id |-> 0, cond |-> "none"]

\* no ReceivingFlow object yet
NoReceivingFlow ==
    [exists |-> FALSE, src_host_id |-> NoneVal, dest_host_id |-> NoneVal,
     req_num |-> 1, received_packets |-> <<>>,
     receive_packet_event |-> "pending", pc |-> "none"]

\* Router.__init__, up to the statement that starts its process
NewRouter ==
    [router_id |-> RouterId, links |-> {}, routing_table |-> <<>>,
     dynamic_routing |-> FALSE, dist_estimates |-> <<>>,
     new_routing_table |-> <<>>, pc |-> "constructing"]

NoRouter ==
    [router_id |-> NoneVal, links |-> {}, routing_table |-> <<>>,
     dynamic_routing |-> FALSE, dist_estimates |-> <<>>,
     new_routing_table |-> <<>>, pc |-> "absent"]

\* the record of a run: the calls of Link.enqueue, the calls that put a
\* packet into a buffer (the number of the call and its time) and the packets
\* handed to the far end (the number of the call and the time of the
\* delivery), per direction, the drops Link.report has returned,
\* the sequence number of the data packet each receiver took last, the
\* data amount each flow was constructed with, and the number of packets of
\* each type each device has passed to Link.enqueue, and the number of packets
\* a host had buffered at a resume of its outbound driver and did not pass
\* on; the calls of the packet constructors (the subclass, the arguments and
\* the packet built), the packets handed to Router.receive_packet, and the
\* RTT samples each sending flow has taken, the times of collectData,
\* and the sequence numbers of the data packets each receiving flow has handled;
\* for each sending flow the time at which its run loop began its last wait
\* and the event that ended that wait ("timeout", or "event" for
\* received_batch_event or received_fin_event); for each sending flow the
\* sequence numbers of the Data packets that send_data has handed to the host
\* in its current call; for each flow id the FIN packets that a host other
\* than the sender's has taken from its link and the FIN packets that
\* receiving flows have handed to their host; for each direction of the link
\* the packets Link.transmit has popped, with the time of the pop
NoHist ==
    [attempts |-> 0, admitted |-> <<(<<>>), (<<>>)>>, reported |-> 0,
     delivered |-> <<(<<>>), (<<>>)>>, popped |-> <<(<<>>), (<<>>)>>,
     last_seq |-> [f \in FlowIds |-> NoneVal],
     init_data |-> [f \in FlowIds |-> 0],
     sent |-> [h \in HostIds \cup {RouterId} |-> [k \in PacketTypes |-> 0]],
     unsent |-> 0, built |-> <<>>, routed |-> <<>>,
     samples |-> [f \in FlowIds |-> {}], breaks |-> <<>>,
     got |-> [f \in FlowIds |-> {}],
     wait_at |-> [f \in FlowIds |-> NoneVal],
     woke |-> [f \in FlowIds |-> "none"],
     round |-> [f \in FlowIds |-> <<>>],
     fins |-> [f \in FlowIds |-> 0], replies |-> [f \in FlowIds |-> 0]]

\* the Initialize events of the processes started by the constructors, in
\* the order MainEnv.loadNetwork builds the objects, then the until event of
\* variant: a slice of a whole interval
break_time_plain(c, t) == t + c.interval

\* the end of the slice of MainEnv.start that begins at t
break_time(c, t) == IF t + c.interval < c.duration THEN t + c.interval
                                                    ELSE c.duration

\* the first run(until=break_time)
InitQueue(c) ==
    LET hq == <<Urgent(0, "hout_init", 0, 0, NoPkt), Urgent(0, "hin_init", 0, 0, NoPkt),
                Urgent(0, "hout_init", 1, 0, NoPkt), Urgent(0, "hin_init", 1, 0, NoPkt)>>
        lq == <<Urgent(0, "link_init", LinkId, 0, NoPkt)>>
        fq(f) == IF c.flows[f].exists
                   THEN <<Urgent(0, "run_init", f, 0, NoPkt)>> ELSE <<>>
        uq == <<Urgent(break_time(c, 0), "until", 0, 0, NoPkt)>>
    IN IF c.nrouters > 0 THEN hq ELSE hq \o lq \o fq(3) \o fq(4) \o uq

Init ==
    /\ cfg \in Configs
    /\ now = 0
    /\ queue = InitQueue(cfg)
    /\ halted = ""
    /\ finished = FALSE
    /\ link = NewLink(cfg.rate, cfg.delay, cfg.cap_kb)
    /\ hosts = [h \in HostIds |->
                  [NewHost(h) EXCEPT !.flows =
                      {f \in FlowIds : cfg.flows[f].exists
                                         /\ FlowSrc(cfg.flows[f]) = h}]]
    /\ sf = [f \in FlowIds |-> NewSendingFlow(f, cfg.flows[f])]
    /\ rf = [f \in RecvIds |-> NoReceivingFlow]
    /\ router = IF cfg.nrouters > 0 THEN NewRouter ELSE NoRouter
    /\ hist = [NoHist EXCEPT !.init_data = [f \in FlowIds |-> cfg.flows[f].data]]

(***************************************************************************)
(* The scheduler: Environment.step pops the head of the queue.             *)
(***************************************************************************)
Running == halted = "" /\ ~finished /\ queue # <<>> /\ router.pc # "constructing"

head == Head(queue)

\* the step pops an event of kind k
Pops(k) == Running /\ head.k = k /\ now' = head.t

(***************************************************************************)
(* Link.                                                                   *)
(***************************************************************************)
\* Link.device_ids: the ids of the end points in the order in which the
\* input gives them
device_ids == cfg.ends

\* the buffer of the device src_id: buffer[device_ids[0]] is held as the
\* first and buffer[device_ids[1]] as the second
BufOf(src_id) == IF src_id = device_ids[2] THEN 2 ELSE 1

\* variants of the test: without the size of the packet, and refusing a
\* packet that fits exactly
Overflows_used(l, src_id, size) == l.buffer_used[BufOf(src_id)] > l.buffer_size
Overflows_geq(l, src_id, size) == l.buffer_used[BufOf(src_id)] + size >= l.buffer_size

\* the test of Link.enqueue: the packet does not fit
Overflows(l, src_id, size) == l.buffer_used[BufOf(src_id)] + size > l.buffer_size

\* variants of Link.enqueue: a buffer that puts the packet at its head, and
\* a drop that is not counted
enqueue_head(l, packet, src_id, t, aid) ==
    IF Overflows(l, src_id, packet.length)
      THEN [l EXCEPT !.packet_drop = @ + 1]
      ELSE [l EXCEPT !.buffer[BufOf(src_id)] =
                         <<[pkt |-> packet, ts |-> t, aid |-> aid]>> \o @,
                     !.buffer_used[BufOf(src_id)] = @ + packet.length,
                     !.busy = IF @ = "pending" THEN "triggered" ELSE @]
enqueue_uncounted(l, packet, src_id, t, aid) ==
    IF Overflows(l, src_id, packet.length)
      THEN l
      ELSE [l EXCEPT !.buffer[BufOf(src_id)] =
                         Append(@, [pkt |-> packet, ts |-> t, aid |-> aid]),
                     !.buffer_used[BufOf(src_id)] = @ + packet.length,
                     !.busy = IF @ = "pending" THEN "triggered" ELSE @]

\* Link.enqueue on the link record; aid numbers the enqueue attempts
enqueue(l, packet, src_id, t, aid) ==
    IF Overflows(l, src_id, packet.length)
      THEN [l EXCEPT !.packet_drop = @ + 1]
      ELSE [l EXCEPT !.buffer[BufOf(src_id)] =
                         Append(@, [pkt |-> packet, ts |-> t, aid |-> aid]),
                     !.buffer_used[BufOf(src_id)] = @ + packet.length,
                     !.busy = IF @ = "pending" THEN "triggered" ELSE @]

\* Link.enqueue on the queue: busy.succeed() schedules the busy event
enqueue_wake(l, q, packet, src_id, t) ==
    IF ~Overflows(l, src_id, packet.length) /\ ~Triggered(l.busy)
      THEN Schedule(q, Normal(t, "busy", LinkId, 0, NoPkt))
      ELSE q

\* the record of a call of Link.enqueue with packet at time t that took link
\* l to l1: the call is counted, and noted as admitted when the buffer of
\* src_id has grown
enqueue_hist(hi, l, l1, packet, src_id, t) ==
    [hi EXCEPT !.attempts = @ + 1,
               !.sent[src_id][packet.packet_type] = @ + 1,
               !.admitted[BufOf(src_id)] =
                   IF Len(l1.buffer[BufOf(src_id)]) > Len(l.buffer[BufOf(src_id)])
                     THEN Append(@, [aid |-> hi.attempts + 1, ts |-> t]) ELSE @]

\* Link.buffer_empty
buffer_empty(l) == Len(l.buffer[1]) + Len(l.buffer[2]) = 0

\* variant: heads of the same timestamp are served from the second buffer
find_next_packet_second(l) ==
    IF Len(l.buffer[1]) = 0 THEN 1
    ELSE IF Len(l.buffer[2]) = 0 THEN 0
    ELSE IF l.buffer[1][1].ts < l.buffer[2][1].ts THEN 0 ELSE 1

\* Link.find_next_packet
find_next_packet(l) ==
    IF Len(l.buffer[1]) = 0 THEN 1
    ELSE IF Len(l.buffer[2]) = 0 THEN 0
    ELSE IF l.buffer[1][1].ts <= l.buffer[2][1].ts THEN 0 ELSE 1

\* variant: busy is not replaced when the buffers are found empty
transmit_loop_stale(l) ==
    IF ~buffer_empty(l)
      THEN [l EXCEPT !.idx = find_next_packet(l), !.pc = "serializing"]
      ELSE [l EXCEPT !.pc = "wait_busy"]

\* the inner loop of Link.transmit up to its next yield, on the link record
transmit_loop(l) ==
    IF ~buffer_empty(l)
      THEN [l EXCEPT !.idx = find_next_packet(l), !.pc = "serializing"]
      ELSE [l EXCEPT !.busy = "pending", !.pc = "wait_busy"]

\* the timeout of the inner loop of Link.transmit: size / link_rate
transmit_loop_q(l, q, t) ==
    IF ~buffer_empty(l)
      THEN Schedule(q, Normal(t + (l.buffer[find_next_packet(l) + 1][1].pkt.length
                                       \div l.link_rate),
                              "link_ser", LinkId, 0, NoPkt))
      ELSE q

\* Link.transmit is started and waits for busy
LinkInit ==
    /\ Pops("link_init")
    /\ queue' = Tail(queue)
    /\ link' = [link EXCEPT !.pc = "wait_busy"]
    /\ UNCHANGED <<cfg, halted, finished, hosts, sf, rf, router, hist>>

\* busy is processed: Link.transmit enters its inner loop
LinkBusy ==
    /\ Pops("busy")
    /\ link' = transmit_loop([link EXCEPT !.busy = "processed"])
    /\ queue' = transmit_loop_q(link, Tail(queue), head.t)
    /\ UNCHANGED <<cfg, halted, finished, hosts, sf, rf, router, hist>>

\* variant: the packet is popped and buffer_used is left as it was
popleft_keep(l) ==
    [l EXCEPT !.buffer[l.idx + 1] = Tail(@),
              !.transmitted_size = @ + l.buffer[l.idx + 1][1].pkt.length]

\* the packet at the head of buffer idx after its serialization
popleft(l) ==
    [l EXCEPT !.buffer_used[l.idx + 1] = @ - l.buffer[l.idx + 1][1].pkt.length,
              !.buffer[l.idx + 1] = Tail(@),
              !.transmitted_size = @ + l.buffer[l.idx + 1][1].pkt.length]

\* the serialization timeout: pop the packet, start its send_packet process,
\* go on with the inner loop
LinkSerialized ==
    /\ Pops("link_ser")
    /\ LET e == link.buffer[link.idx + 1][1]
           l1 == popleft(link)
           q1 == Schedule(Tail(queue),
                          Urgent(head.t, "deliver_init", link.idx, e.aid, e.pkt))
       IN /\ link' = transmit_loop(l1)
          /\ queue' = transmit_loop_q(l1, q1, head.t)
          /\ hist' = [hist EXCEPT !.popped[link.idx + 1] =
                                       Append(@, [aid |-> e.aid, at |-> head.t])]
    /\ UNCHANGED <<cfg, halted, finished, hosts, sf, rf, router>>

\* Link.send_packet is started: it waits link_delay
LinkSendPacketInit ==
    /\ Pops("deliver_init")
    /\ queue' = Schedule(Tail(queue),
                         Normal(head.t + link.link_delay, "deliver", head.who,
                                head.gen, head.pkt))
    /\ UNCHANGED <<cfg, halted, finished, link, hosts, sf, rf, router, hist>>

\* Host.receive_packet on the host record
host_receive_packet(hr, packet) ==
    [hr EXCEPT !.incoming_packets = Append(@, packet),
               !.receive_packet_event = IF @ = "pending" THEN "triggered" ELSE @]

\* Link.send_packet after link_delay: end_points[1 - idx].receive_packet(packet)
LinkDeliver ==
    /\ Pops("deliver")
    /\ LET h == device_ids[2 - head.who]
       IN /\ hosts' = [hosts EXCEPT ![h] = host_receive_packet(@, head.pkt)]
          /\ queue' = IF ~Triggered(hosts[h].receive_packet_event)
                        THEN Schedule(Tail(queue), Normal(head.t, "recv_ev", h, 0, NoPkt))
                        ELSE Tail(queue)
    /\ hist' = [hist EXCEPT !.delivered[head.who + 1] =
                                 Append(@, [aid |-> head.gen, at |-> head.t])]
    /\ UNCHANGED <<cfg, halted, finished, link, sf, rf, router>>

(***************************************************************************)
(* Host.                                                                   *)
(***************************************************************************)
\* Host.send_packet on the host record
host_send_packet(hr, packet) ==
    [hr EXCEPT !.outgoing_packets = Append(@, packet),
               !.send_packet_event = IF @ = "pending" THEN "triggered" ELSE @]

\* Host.send_packet on the queue
host_send_wake(hr, q, t) ==
    IF ~Triggered(hr.send_packet_event)
      THEN Schedule(q, Normal(t, "send_ev", hr.host_id, 0, NoPkt))
      ELSE q

\* Host.monitor_outgoing_packets is started and waits for send_packet_event
HostOutInit ==
    /\ Pops("hout_init")
    /\ queue' = Tail(queue)
    /\ hosts' = [hosts EXCEPT ![head.who].out_pc = "wait_send"]
    /\ UNCHANGED <<cfg, halted, finished, link, sf, rf, router, hist>>

\* Host.monitor_incoming_packets is started and waits for receive_packet_event
HostInInit ==
    /\ Pops("hin_init")
    /\ queue' = Tail(queue)
    /\ hosts' = [hosts EXCEPT ![head.who].in_pc = "wait_receive"]
    /\ UNCHANGED <<cfg, halted, finished, link, sf, rf, router, hist>>

\* send_packet_event is processed: the host waits PROCESSING_TIME
HostSendEvent ==
    /\ Pops("send_ev")
    /\ hosts' = [hosts EXCEPT ![head.who].send_packet_event = "processed",
                              ![head.who].out_pc = "processing"]
    /\ queue' = Schedule(Tail(queue), Normal(head.t, "hout_to", head.who, 0, NoPkt))
    /\ UNCHANGED <<cfg, halted, finished, link, sf, rf, router, hist>>

\* the branch of Host.monitor_outgoing_packets that sends
SinglePacket(hr) == Len(hr.outgoing_packets) = 1

\* after PROCESSING_TIME: one buffered packet goes to the link; with any
\* other number the host calls flow.notify_collision, which no flow class
\* defines (AttributeError; KeyError when the flow has removed itself)
HostFlush ==
    /\ Pops("hout_to")
    /\ LET h == head.who
           p == hosts[h].outgoing_packets[1]
       IN IF SinglePacket(hosts[h])
            THEN /\ link' = enqueue(link, p, h, head.t, hist.attempts + 1)
                 /\ queue' = enqueue_wake(link, Tail(queue), p, h, head.t)
                 /\ hist' = enqueue_hist(hist, link,
                                          enqueue(link, p, h, head.t, hist.attempts + 1),
                                          p, h, head.t)
                 /\ hosts' = [hosts EXCEPT ![h].outgoing_packets = <<>>,
                                           ![h].num_packets_sent = @ + 1,
                                           ![h].send_packet_event = "pending",
                                           ![h].out_pc = "wait_send"]
                 /\ UNCHANGED halted
            ELSE /\ halted' = "notify_collision"
                 /\ queue' = Tail(queue)
                 /\ hist' = [hist EXCEPT !.unsent =
                                 @ + Len(hosts[h].outgoing_packets)]
                 /\ UNCHANGED <<link, hosts>>
    /\ UNCHANGED <<cfg, finished, sf, rf, router>>

(***************************************************************************)
(* Sending flow.                                                           *)
(***************************************************************************)
\* variant: the flow does not take the packet
flow_receive_packet_skip(fr, packet) == fr

\* Flow.receive_packet on a flow record (sending or receiving)
flow_receive_packet(fr, packet) ==
    [fr EXCEPT !.received_packets = Append(@, packet),
               !.receive_packet_event = IF @ = "pending" THEN "triggered" ELSE @]

\* list.pop(): the last element
Last(seq) == seq[Len(seq)]
Front(seq) == SubSeq(seq, 1, Len(seq) - 1)

\* variant: ssthresh is half the window, however small
enter_slow_start_half(s) ==
    [s EXCEPT !.ssthresh = Rat(s.window_size.n, 2 * s.window_size.d),
              !.window_size = RInt(1),
              !.is_CA = FALSE]

\* variant: the window is cut to the new threshold
enter_slow_start_cut(s) ==
    [s EXCEPT !.ssthresh = LET half == Rat(s.window_size.n, 2 * s.window_size.d)
                           IN IF RGeq(half, RInt(2)) THEN half ELSE RInt(2),
              !.window_size = LET half == Rat(s.window_size.n, 2 * s.window_size.d)
                              IN IF RGeq(half, RInt(2)) THEN half ELSE RInt(2),
              !.is_CA = FALSE]

\* SendingFlow.enter_slow_start
enter_slow_start(s) ==
    [s EXCEPT !.ssthresh = LET half == Rat(s.window_size.n, 2 * s.window_size.d)
                           IN IF RGeq(half, RInt(2)) THEN half ELSE RInt(2),
              !.window_size = RInt(1),
              !.is_CA = FALSE]

\* variant: the window is not cut to the data that is left
window_end_of_full(s) == s.batch_start - 1 + RFloor(s.window_size)

\* variant: the last window ends one packet after the data that is left
window_end_of_next(s) ==
    IF s.data_amt * s.window_size.d >= DATA_PCK_SIZE * s.window_size.n
      THEN s.batch_start - 1 + RFloor(s.window_size)
      ELSE (s.data_amt \div DATA_PCK_SIZE) + s.batch_start

\* window_end as SendingFlow.send_data computes it
window_end_of(s) ==
    IF s.data_amt * s.window_size.d >= DATA_PCK_SIZE * s.window_size.n
      THEN s.batch_start - 1 + RFloor(s.window_size)
      ELSE (s.data_amt \div DATA_PCK_SIZE) + s.batch_start - 1

\* variant: every round sends again from the first packet of the flow
send_data_begin_first(s, t) ==
    [s EXCEPT !.seq_num = 1,
              !.window_start_time = t,
              !.window_start = s.batch_start,
              !.window_end = window_end_of(s)]

\* the first statements of SendingFlow.send_data
send_data_begin(s, t) ==
    [s EXCEPT !.seq_num = s.batch_start,
              !.window_start_time = t,
              !.window_start = s.batch_start,
              !.window_end = window_end_of(s)]

\* the loop of SendingFlow.send_data up to its next yield, or its end
send_data_loop(s) ==
    IF s.seq_num <= s.window_end
      THEN [s EXCEPT !.seq_num = @ + 1, !.sd_pc = "pacing"]
      ELSE [s EXCEPT !.sd_pc = "done"]

\* Host.get_link_rate: the rate of the host's link
get_link_rate(l) == l.link_rate

\* what the loop of send_data sends and schedules
send_data_loop_hosts(s, hs, f, t) ==
    IF s.seq_num <= s.window_end
      THEN [hs EXCEPT ![s.src_host_id] =
                host_send_packet(@, DataPacket(s.src_host_id, f, s.dest_host_id,
                                               t, s.seq_num))]
      ELSE hs

send_data_loop_q(s, hs, q, f, t) ==
    IF s.seq_num <= s.window_end
      THEN Schedule(host_send_wake(hs[s.src_host_id], q, t),
                    Normal(t + (DATA_PCK_SIZE \div get_link_rate(link)),
                           "sd_to", f, 0, NoPkt))
      ELSE Schedule(q, Normal(t, "sd_end", f, 0, NoPkt))

\* the record of the packet that the loop of send_data hands to the host:
\* hs1 is the hosts after the step
send_data_loop_hist(hi, s, hs1, f) ==
    IF s.seq_num <= s.window_end
      THEN [hi EXCEPT !.round[f] =
              Append(@, Last(hs1[s.src_host_id].outgoing_packets).seq_num)]
      ELSE hi

\* a Condition event over ev and a new Timeout: triggered at once when ev has
\* been processed already
new_condition(s, ev) ==
    [s EXCEPT !.cond_id = @ + 1,
              !.cond = IF ev = "processed" THEN "triggered" ELSE "pending"]

new_condition_q(s, ev, q, f, t) ==
    LET q1 == Schedule(q, Normal(t + s.retransmit_timeout, "rto", f,
                                 s.cond_id + 1, NoPkt))
    IN IF ev = "processed"
         THEN Schedule(q1, Normal(t, "cond", f, s.cond_id + 1, NoPkt))
         ELSE q1

\* the FIN loop of SendingFlow.run: send a FIN, wait for the reply or the
\* retransmit timeout
fin_round(s) ==
    [new_condition(s, s.received_fin_event) EXCEPT !.run_pc = "wait_fin"]

fin_round_hosts(s, hs, f, t) ==
    [hs EXCEPT ![s.src_host_id] =
        host_send_packet(@, FINPacket(s.src_host_id, f, s.dest_host_id, t, FIN_SEQ))]

fin_round_q(s, hs, q, f, t) ==
    new_condition_q(s, s.received_fin_event,
                    host_send_wake(hs[s.src_host_id], q, t), f, t)

\* the record of the wait of a FIN round
fin_round_hist(hi, s, f, t) ==
    [hi EXCEPT !.wait_at[f] = t,
               !.woke[f] = IF s.received_fin_event = "processed" THEN "event"
                                                                  ELSE "none"]

\* the head of the while loop of SendingFlow.run: another batch while data
\* remains, else the FIN loop
run_loop(s) ==
    IF s.data_amt > 0
      THEN [s EXCEPT !.run_pc = "in_send_data", !.sd_pc = "new"]
      ELSE fin_round(s)

run_loop_hosts(s, hs, f, t) ==
    IF s.data_amt > 0 THEN hs ELSE fin_round_hosts(s, hs, f, t)

run_loop_hist(hi, s, f, t) ==
    IF s.data_amt > 0 THEN hi ELSE fin_round_hist(hi, s, f, t)

run_loop_q(s, hs, q, f, t) ==
    IF s.data_amt > 0
      THEN Schedule(q, Urgent(t, "sd_init", f, 0, NoPkt))
      ELSE fin_round_q(s, hs, q, f, t)

\* SendingFlow.run is started: it waits for start_time
RunInit ==
    /\ Pops("run_init")
    /\ sf' = [sf EXCEPT ![head.who].run_pc = "start_wait"]
    /\ queue' = Schedule(Tail(queue),
                         Normal(head.t + sf[head.who].start_time, "run_start",
                                head.who, 0, NoPkt))
    /\ UNCHANGED <<cfg, halted, finished, link, hosts, rf, router, hist>>

\* the defaults SendingFlow.run sets at start_time
run_defaults(s) ==
    IF s.cc = "FAST"
      THEN [s EXCEPT !.window_size = RInt(FAST_WINDOW), !.alpha = FAST_ALPHA,
                     !.fast_timeout = FAST_TIMEOUT,
                     !.mon_pc = "new", !.fast_pc = "new"]
      ELSE [s EXCEPT !.window_size = RInt(1), !.mon_pc = "new"]

\* at start_time: defaults, the monitor (and FAST) processes, the first batch
RunStart ==
    /\ Pops("run_start")
    /\ LET f == head.who
           s1 == run_defaults(sf[f])
           q1 == Schedule(Tail(queue), Urgent(head.t, "mon_init", f, 0, NoPkt))
           q2 == IF s1.cc = "FAST"
                   THEN Schedule(q1, Urgent(head.t, "fast_init", f, 0, NoPkt))
                   ELSE q1
       IN /\ sf' = [sf EXCEPT ![f] = run_loop(s1)]
          /\ hosts' = run_loop_hosts(s1, hosts, f, head.t)
          /\ queue' = run_loop_q(s1, hosts, q2, f, head.t)
          /\ hist' = run_loop_hist(hist, s1, f, head.t)
    /\ UNCHANGED <<cfg, halted, finished, link, rf, router>>

\* SendingFlow.send_data is started: the window of the round, its first packet
SendDataInit ==
    /\ Pops("sd_init")
    /\ LET f == head.who
           s1 == send_data_begin(sf[f], head.t)
       IN /\ sf' = [sf EXCEPT ![f] = send_data_loop(s1)]
          /\ hosts' = send_data_loop_hosts(s1, hosts, f, head.t)
          /\ queue' = send_data_loop_q(s1, hosts, Tail(queue), f, head.t)
          /\ hist' = send_data_loop_hist([hist EXCEPT !.round[f] = <<>>], s1,
                                         hosts', f)
    /\ UNCHANGED <<cfg, halted, finished, link, rf, router>>

\* the pacing timeout of send_data: the next packet, or the end of the batch
SendDataNext ==
    /\ Pops("sd_to")
    /\ LET f == head.who
       IN /\ sf' = [sf EXCEPT ![f] = send_data_loop(@)]
          /\ hosts' = send_data_loop_hosts(sf[f], hosts, f, head.t)
          /\ queue' = send_data_loop_q(sf[f], hosts, Tail(queue), f, head.t)
          /\ hist' = send_data_loop_hist(hist, sf[f], hosts', f)
    /\ UNCHANGED <<cfg, halted, finished, link, rf, router>>

\* send_data has ended: run waits for received_batch_event or the timeout
SendDataEnd ==
    /\ Pops("sd_end")
    /\ LET f == head.who
       IN /\ sf' = [sf EXCEPT ![f] =
                      [new_condition(@, @.received_batch_event)
                          EXCEPT !.run_pc = "wait_batch"]]
          /\ queue' = new_condition_q(sf[f], sf[f].received_batch_event,
                                      Tail(queue), f, head.t)
          /\ hist' = [hist EXCEPT !.wait_at[f] = head.t,
                                  !.woke[f] = IF sf[f].received_batch_event = "processed"
                                                THEN "event" ELSE "none"]
    /\ UNCHANGED <<cfg, halted, finished, link, hosts, rf, router>>

\* variant: a Timeout triggers whatever Condition the flow waits on
timer_fires_any(s, gen) == s.cond = "pending"

\* the Timeout of the Condition numbered gen triggers it, unless the
\* Condition has been triggered before or the flow waits on a later one
timer_fires(s, gen) == gen = s.cond_id /\ s.cond = "pending"

\* a retransmit Timeout is processed: it triggers the Condition it belongs
\* to, unless that one has been triggered before
RetransmitTimer ==
    /\ Pops("rto")
    /\ LET f == head.who
           fires == timer_fires(sf[f], head.gen)
       IN /\ sf' = IF fires THEN [sf EXCEPT ![f].cond = "triggered"] ELSE sf
          /\ queue' = IF fires
                        THEN Schedule(Tail(queue),
                                      Normal(head.t, "cond", f, head.gen, NoPkt))
                        ELSE Tail(queue)
          /\ hist' = IF fires THEN [hist EXCEPT !.woke[f] = "timeout"] ELSE hist
    /\ UNCHANGED <<cfg, halted, finished, link, hosts, rf, router>>

\* received_batch_event is processed
BatchEvent ==
    /\ Pops("batch_ev")
    /\ LET f == head.who
           current == head.gen = sf[f].batch_gen
           fires == current /\ sf[f].run_pc = "wait_batch" /\ sf[f].cond = "pending"
       IN /\ sf' = [sf EXCEPT ![f].received_batch_event =
                                  IF current THEN "processed" ELSE @,
                              ![f].cond = IF fires THEN "triggered" ELSE @]
          /\ queue' = IF fires
                        THEN Schedule(Tail(queue),
                                      Normal(head.t, "cond", f, sf[f].cond_id, NoPkt))
                        ELSE Tail(queue)
          /\ hist' = IF fires THEN [hist EXCEPT !.woke[f] = "event"] ELSE hist
    /\ UNCHANGED <<cfg, halted, finished, link, hosts, rf, router>>

\* received_fin_event is processed
FinEvent ==
    /\ Pops("fin_ev")
    /\ LET f == head.who
           fires == sf[f].run_pc = "wait_fin" /\ sf[f].cond = "pending"
       IN /\ sf' = [sf EXCEPT ![f].received_fin_event = "processed",
                              ![f].cond = IF fires THEN "triggered" ELSE @]
          /\ queue' = IF fires
                        THEN Schedule(Tail(queue),
                                      Normal(head.t, "cond", f, sf[f].cond_id, NoPkt))
                        ELSE Tail(queue)
          /\ hist' = IF fires THEN [hist EXCEPT !.woke[f] = "event"] ELSE hist
    /\ UNCHANGED <<cfg, halted, finished, link, hosts, rf, router>>

\* run after the wait of a batch: reset the event, or slow start (Tahoe)
after_batch_wait(s) ==
    IF Triggered(s.received_batch_event)
      THEN [s EXCEPT !.received_batch_event = "pending", !.batch_gen = @ + 1]
      ELSE IF s.cc = "Tahoe" THEN enter_slow_start(s) ELSE s

\* SendingFlow.set_retransmit_timeout(3 * self.rtt)
set_retransmit_timeout(s) == [s EXCEPT !.retransmit_timeout = 3 * s.rtt]

\* the Condition of a batch wait is processed: run goes on
RunAfterBatch ==
    /\ Pops("cond")
    /\ sf[head.who].run_pc = "wait_batch"
    /\ LET f == head.who
           s1 == [after_batch_wait(sf[f]) EXCEPT !.cond = "none"]
           s2 == set_retransmit_timeout(s1)
       IN IF 3 * s1.rtt > 0
            THEN /\ sf' = [sf EXCEPT ![f] = run_loop(s2)]
                 /\ hosts' = run_loop_hosts(s2, hosts, f, head.t)
                 /\ queue' = run_loop_q(s2, hosts, Tail(queue), f, head.t)
                 /\ hist' = run_loop_hist(hist, s2, f, head.t)
                 /\ UNCHANGED halted
            ELSE /\ halted' = "AssertionError"
                 /\ sf' = [sf EXCEPT ![f] = s1]
                 /\ queue' = Tail(queue)
                 /\ UNCHANGED <<hosts, hist>>
    /\ UNCHANGED <<cfg, finished, link, rf, router>>

\* the last statements of SendingFlow.run
end_run(s, t) ==
    [s EXCEPT !.window_size = RInt(0), !.end_time = t, !.run_pc = "done",
              !.cond = "none"]

\* variant: the FIN is never sent again
fin_resend_never(s) == FALSE

\* fin_resend after a FIN wait: the FIN is sent again unless the reply came
fin_resend(s) == ~Triggered(s.received_fin_event)

\* the Condition of a FIN wait is processed: the flow ends, or sends the FIN
\* again
RunAfterFin ==
    /\ Pops("cond")
    /\ sf[head.who].run_pc = "wait_fin"
    /\ LET f == head.who
           s1 == [sf[f] EXCEPT !.cond = "none"]
       IN IF ~fin_resend(sf[f])
            THEN /\ sf' = [sf EXCEPT ![f] = end_run(@, head.t)]
                 /\ queue' = Tail(queue)
                 /\ UNCHANGED <<hosts, hist>>
            ELSE /\ sf' = [sf EXCEPT ![f] = fin_round(s1)]
                 /\ hosts' = fin_round_hosts(s1, hosts, f, head.t)
                 /\ queue' = fin_round_q(s1, hosts, Tail(queue), f, head.t)
                 /\ hist' = fin_round_hist(hist, s1, f, head.t)
    /\ UNCHANGED <<cfg, halted, finished, link, rf, router>>

(***************************************************************************)
(* The monitor processes of a sending flow.                                *)
(***************************************************************************)
\* monitor_incoming_pkts is started: it waits for a packet
MonitorInit ==
    /\ Pops("mon_init")
    /\ sf' = [sf EXCEPT ![head.who].mon_pc =
                 IF sf[head.who].data_amt > 0 THEN "wait_ack" ELSE "wait_last"]
    /\ queue' = Tail(queue)
    /\ UNCHANGED <<cfg, halted, finished, link, hosts, rf, router, hist>>

\* variant: an ACK credits one packet whatever it acknowledges
ack_credit_one(s, req_num) ==
    [s EXCEPT !.data_amt = @ - DATA_PCK_SIZE, !.batch_start = req_num]

\* variant: the difference of the credit is taken the other way round
ack_credit_back(s, req_num) ==
    [s EXCEPT !.data_amt = @ - (s.batch_start - req_num) * DATA_PCK_SIZE,
              !.batch_start = req_num]

\* variant: the packet the ACK asks for is credited as well
ack_credit_ahead(s, req_num) ==
    [s EXCEPT !.data_amt = @ - (req_num + 1 - s.batch_start) * DATA_PCK_SIZE,
              !.batch_start = req_num + 1]

\* an ACK with req_num > batch_start: the data it acknowledges is credited
ack_credit(s, req_num) ==
    [s EXCEPT !.data_amt = @ - (req_num - s.batch_start) * DATA_PCK_SIZE,
              !.batch_start = req_num]

\* the for loop of congestion avoidance: window_size += 1.0 / window_size
RECURSIVE ca_grow(_, _)
ca_grow(w, k) == IF k <= 0 THEN w ELSE ca_grow(RAdd(w, Rat(w.d, w.n)), k - 1)

\* the window of Tahoe after an ACK with req_num > batch_start
tahoe_grow(s, req_num) ==
    IF s.is_CA
      THEN [s EXCEPT !.window_size = ca_grow(@, req_num - s.batch_start)]
      ELSE [s EXCEPT !.window_size = RAdd(@, RInt(1)),
                     !.is_CA = RGeq(RAdd(s.window_size, RInt(1)), s.ssthresh)]

\* tahoe_monitor_incoming_pkts, the branch req_num > batch_start
tahoe_new_ack(s, req_num) ==
    ack_credit([tahoe_grow(s, req_num) EXCEPT !.dup_ack = 0], req_num)

\* variant: every duplicate is counted, whatever the time since the last
tahoe_count_dup_all(s, t) == [s EXCEPT !.dup_ack = @ + 1, !.last_dup = t]

\* tahoe_monitor_incoming_pkts, the branch req_num == batch_start, up to the
\* test of dup_ack
tahoe_count_dup(s, t) ==
    IF t - s.last_dup >= DUP_GAP
      THEN [s EXCEPT !.dup_ack = @ + 1, !.last_dup = t]
      ELSE s

\* the third duplicate: the flow retransmits batch_start
Retransmits(s, packet, t) ==
    /\ s.cc = "Tahoe"
    /\ ~(packet.timestamp < s.window_start_time)
    /\ packet.seq_num = s.batch_start
    /\ tahoe_count_dup(s, t).dup_ack = DUP_ACK

tahoe_dup_ack(s, t) ==
    LET s1 == tahoe_count_dup(s, t)
    IN IF s1.dup_ack = DUP_ACK
         THEN enter_slow_start([s1 EXCEPT !.dup_ack = 0])
         ELSE s1

\* the RTT sample of an ACK
rtt_sample(s, packet, t) ==
    IF s.cc = "FAST"
      THEN [s EXCEPT !.rtt = t - packet.timestamp,
                     !.base_rtt = IF t - packet.timestamp < @
                                    THEN t - packet.timestamp ELSE @]
      ELSE [s EXCEPT !.rtt = t - packet.timestamp]

\* variant: no ACK is taken for one of a previous window iteration
Stale_never(s, packet) == FALSE

\* an ACK of a previous window iteration
Stale(s, packet) == packet.timestamp < s.window_start_time

\* one iteration of the while loop of FAST_monitor_incoming_pkts or
\* tahoe_monitor_incoming_pkts, up to the test of the batch
monitor_ack(s, packet, t) ==
    LET s0 == [rtt_sample(s, packet, t) EXCEPT
                  !.received_packets = Front(@),
                  !.receive_packet_event = "pending"]
        req_num == packet.seq_num
    IN IF Stale(s, packet) THEN s0
       ELSE IF req_num > s.batch_start
              THEN IF s.cc = "FAST" THEN ack_credit(s0, req_num)
                                    ELSE tahoe_new_ack(s0, req_num)
       ELSE IF req_num = s.batch_start /\ s.cc = "Tahoe"
              THEN tahoe_dup_ack(s0, t)
       ELSE s0

\* the test that fires received_batch_event
BatchComplete(s) == s.batch_start = s.window_end + 1

\* receive_packet_event of a sending flow is processed: the monitor handles
\* the packet
MonitorAck ==
    /\ Pops("frecv_ev")
    /\ sf[head.who].mon_pc = "wait_ack"
    /\ LET f == head.who
           s == sf[f]
           packet == Last(s.received_packets)
           s1 == monitor_ack(s, packet, head.t)
           fires == ~Stale(s, packet) /\ BatchComplete(s1)
           resend == Retransmits(s, packet, head.t)
           h == s.src_host_id
           q1 == IF resend THEN host_send_wake(hosts[h], Tail(queue), head.t)
                           ELSE Tail(queue)
           s2 == [s1 EXCEPT !.mon_pc = IF s1.data_amt > 0 THEN "wait_ack"
                                                           ELSE "wait_last"]
       IN IF packet.packet_type # ack_packet
            THEN /\ halted' = "AssertionError"
                 /\ sf' = [sf EXCEPT ![f].received_packets = Front(@),
                                     ![f].receive_packet_event = "processed"]
                 /\ queue' = Tail(queue)
                 /\ UNCHANGED <<hosts, hist>>
            ELSE /\ hist' = [hist EXCEPT !.samples[f] =
                                 @ \cup {head.t - packet.timestamp}]
                 /\ hosts' = IF resend
                               THEN [hosts EXCEPT ![h] = host_send_packet(@,
                                        DataPacket(h, f, s.dest_host_id, head.t,
                                                   s.batch_start))]
                               ELSE hosts
                 /\ IF fires /\ Triggered(s1.received_batch_event)
                      THEN /\ halted' = "RuntimeError"
                           /\ sf' = [sf EXCEPT ![f] = s1]
                           /\ queue' = q1
                      ELSE /\ UNCHANGED halted
                           /\ sf' = [sf EXCEPT ![f] =
                                       IF fires
                                         THEN [s2 EXCEPT !.received_batch_event = "triggered"]
                                         ELSE s2]
                           /\ queue' = IF fires
                                         THEN Schedule(q1, Normal(head.t, "batch_ev", f,
                                                                  s1.batch_gen, NoPkt))
                                         ELSE q1
    /\ UNCHANGED <<cfg, finished, link, rf, router>>

\* the packet the monitor takes after the data is acknowledged: a FIN fires
\* received_fin_event, anything else is dropped; the monitor ends
MonitorLast ==
    /\ Pops("frecv_ev")
    /\ sf[head.who].mon_pc = "wait_last"
    /\ LET f == head.who
           s == sf[f]
           packet == Last(s.received_packets)
           s1 == [s EXCEPT !.received_packets = Front(@),
                           !.receive_packet_event = "processed",
                           !.mon_pc = "done"]
           isfin == packet.packet_type = fin_packet
       IN IF isfin /\ ((s.cc = "FAST" /\ packet.seq_num # FIN_SEQ)
                       \/ Triggered(s.received_fin_event))
            THEN /\ halted' = "AssertionError"
                 /\ sf' = [sf EXCEPT ![f] = s1]
                 /\ queue' = Tail(queue)
            ELSE /\ UNCHANGED halted
                 /\ sf' = [sf EXCEPT ![f] =
                             IF isfin THEN [s1 EXCEPT !.received_fin_event = "triggered"]
                                      ELSE s1]
                 /\ queue' = IF isfin
                               THEN Schedule(Tail(queue),
                                             Normal(head.t, "fin_ev", f, 0, NoPkt))
                               ELSE Tail(queue)
    /\ UNCHANGED <<cfg, finished, link, hosts, rf, router, hist>>

\* variant: a tick scales the window and adds nothing
fast_window_scaled(s) == RCap(RMul(s.window_size, Rat(s.base_rtt, s.rtt)))

\* the window of FAST at a timer tick
fast_window(s) ==
    RCap(RAdd(RMul(s.window_size, Rat(s.base_rtt, s.rtt)), RInt(s.alpha)))

\* the while loop of SendingFlow.FAST up to its next yield, or its end
fast_loop(s) ==
    IF s.end_time = NoneVal
      THEN [s EXCEPT !.fast_pc = "waiting"]
      ELSE [s EXCEPT !.window_size = RInt(0), !.fast_pc = "done"]

fast_loop_q(s, q, f, t) ==
    IF s.end_time = NoneVal
      THEN Schedule(q, Normal(t + s.fast_timeout, "fast_to", f, 0, NoPkt))
      ELSE q

\* SendingFlow.FAST is started
FastInit ==
    /\ Pops("fast_init")
    /\ sf' = [sf EXCEPT ![head.who] = fast_loop(@)]
    /\ queue' = fast_loop_q(sf[head.who], Tail(queue), head.who, head.t)
    /\ UNCHANGED <<cfg, halted, finished, link, hosts, rf, router, hist>>

\* a tick of the FAST timer
FastTick ==
    /\ Pops("fast_to")
    /\ LET f == head.who
       IN IF sf[f].rtt = 0
            THEN /\ halted' = "ZeroDivisionError"
                 /\ queue' = Tail(queue)
                 /\ UNCHANGED sf
            ELSE /\ sf' = [sf EXCEPT ![f] =
                             fast_loop([@ EXCEPT !.window_size = fast_window(sf[f])])]
                 /\ queue' = fast_loop_q(sf[f], Tail(queue), f, head.t)
                 /\ UNCHANGED halted
    /\ UNCHANGED <<cfg, finished, link, hosts, rf, router, hist>>

(***************************************************************************)
(* Host.monitor_incoming_packets and the receiving flow.                   *)
(***************************************************************************)
\* variant: the new receiving flow replies to its own host
NewReceivingFlow_self(h, packet) ==
    [exists |-> TRUE, src_host_id |-> h, dest_host_id |-> h,
     req_num |-> 1, received_packets |-> <<>>,
     receive_packet_event |-> "pending", pc |-> "new"]

\* ReceivingFlow.__init__ at host h for the flow of the packet
NewReceivingFlow(h, packet) ==
    [exists |-> TRUE, src_host_id |-> h, dest_host_id |-> packet.src,
     req_num |-> 1, received_packets |-> <<>>,
     receive_packet_event |-> "pending", pc |-> "new"]

\* the flow of flows[flow_id] at host h is the sending flow
IsSender(h, f) == sf[f].exists /\ sf[f].src_host_id = h

\* receive_packet_event of a host is processed: the packet goes to its flow,
\* which is created when the host has none of that id
HostReceiveEvent ==
    /\ Pops("recv_ev")
    /\ LET h == head.who
           packet == Last(hosts[h].incoming_packets)
           f == packet.flow_id
           known == f \in hosts[h].flows
           r0 == IF known THEN rf[f] ELSE NewReceivingFlow(h, packet)
           q0 == IF known THEN Tail(queue)
                 ELSE Schedule(Tail(queue), Urgent(head.t, "rrun_init", f, 0, NoPkt))
       IN /\ hosts' = [hosts EXCEPT ![h].incoming_packets = Front(@),
                                    ![h].num_packets_received = @ + 1,
                                    ![h].flows = @ \cup {f},
                                    ![h].receive_packet_event = "pending"]
          /\ IF known /\ IsSender(h, f)
               THEN /\ sf' = [sf EXCEPT ![f] = flow_receive_packet(@, packet)]
                    /\ queue' = IF ~Triggered(sf[f].receive_packet_event)
                                  THEN Schedule(q0, Normal(head.t, "frecv_ev", f, 0, NoPkt))
                                  ELSE q0
                    /\ UNCHANGED rf
               ELSE /\ rf' = [rf EXCEPT ![f] = flow_receive_packet(r0, packet)]
                    /\ queue' = IF ~Triggered(r0.receive_packet_event)
                                  THEN Schedule(q0, Normal(head.t, "rrecv_ev", f, 0, NoPkt))
                                  ELSE q0
                    /\ UNCHANGED sf
          /\ hist' = IF packet.packet_type = fin_packet /\ ~(known /\ IsSender(h, f))
                        THEN [hist EXCEPT !.fins[f] = @ + 1]
                        ELSE hist
    /\ UNCHANGED <<cfg, halted, finished, link, router>>

\* ReceivingFlow.run is started and waits for a packet
ReceiverInit ==
    /\ Pops("rrun_init")
    /\ rf' = [rf EXCEPT ![head.who].pc = "wait"]
    /\ queue' = Tail(queue)
    /\ UNCHANGED <<cfg, halted, finished, link, hosts, sf, router, hist>>

\* variant: the receiver expects the successor of whatever arrived
next_req_num_follow(req_num, seq_num) == seq_num + 1

\* variant: every data packet moves the receiver on
next_req_num_always(req_num, seq_num) == req_num + 1

\* req_num after a data packet with sequence number seq_num
next_req_num(req_num, seq_num) ==
    IF seq_num = req_num THEN req_num + 1 ELSE req_num

\* ReceivingFlow.run on a data packet
receive_data(r, packet) ==
    [r EXCEPT !.received_packets = Front(@),
              !.req_num = next_req_num(@, packet.seq_num),
              !.receive_packet_event = "pending"]

\* the ACK ReceivingFlow.run sends for a data packet
ack_for(r, f, packet) ==
    AckPacket(r.src_host_id, f, r.dest_host_id, packet.timestamp,
              next_req_num(r.req_num, packet.seq_num))

\* variant: the flow replies to a FIN and goes on waiting
receive_fin_waits(r) ==
    [r EXCEPT !.received_packets = Front(@),
              !.receive_packet_event = "pending"]

\* ReceivingFlow.run on a FIN, with end_flow
receive_fin(r) ==
    [r EXCEPT !.received_packets = Front(@),
              !.receive_packet_event = "processed",
              !.pc = "ended"]

\* receive_packet_event of a receiving flow is processed: an ACK for a data
\* packet; a FIN for a FIN, and the flow removes itself from its host
ReceiverPacket ==
    /\ Pops("rrecv_ev")
    /\ LET f == head.who
           r == rf[f]
           h == r.src_host_id
           packet == Last(r.received_packets)
           reply == IF packet.packet_type = data_packet
                      THEN ack_for(r, f, packet)
                      ELSE FINPacket(h, f, r.dest_host_id, packet.timestamp, FIN_SEQ)
       IN IF r.pc # "wait"
            THEN /\ rf' = [rf EXCEPT ![f].receive_packet_event = "processed"]
                 /\ queue' = Tail(queue)
                 /\ UNCHANGED <<hosts, halted, hist>>
          ELSE IF packet.packet_type \notin {data_packet, fin_packet}
            THEN /\ halted' = "AssertionError"
                 /\ rf' = [rf EXCEPT ![f].received_packets = Front(@),
                                     ![f].receive_packet_event = "processed"]
                 /\ queue' = Tail(queue)
                 /\ UNCHANGED <<hosts, hist>>
          ELSE /\ rf' = [rf EXCEPT ![f] = IF packet.packet_type = data_packet
                                            THEN receive_data(r, packet)
                                            ELSE receive_fin(r)]
               /\ hosts' = [hosts EXCEPT ![h] =
                              [host_send_packet(@, reply) EXCEPT !.flows =
                                  IF packet.packet_type = fin_packet
                                    THEN @ \ {f} ELSE @]]
               /\ queue' = host_send_wake(hosts[h], Tail(queue), head.t)
               /\ hist' = IF packet.packet_type = data_packet
                             THEN [hist EXCEPT !.last_seq[f] = packet.seq_num,
                                               !.got[f] = @ \cup {packet.seq_num}]
                             ELSE IF Last(hosts'[h].outgoing_packets).packet_type
                                        = fin_packet
                               THEN [hist EXCEPT !.replies[f] = @ + 1]
                               ELSE hist
               /\ UNCHANGED halted
    /\ UNCHANGED <<cfg, finished, link, sf, router>>

(***************************************************************************)
(* Environment and router.                                                 *)
(***************************************************************************)
\* Link.report: the counters of the interval are cleared
link_report(l) == [l EXCEPT !.transmitted_size = 0, !.packet_drop = 0]

\* Host.report
host_report(hr) == [hr EXCEPT !.num_packets_sent = 0, !.num_packets_received = 0]

\* run(until=break_time) returns: collectData, then the next slice or the end
Collect ==
    /\ Pops("until")
    /\ link' = link_report(link)
    /\ hosts' = [h \in HostIds |-> host_report(hosts[h])]
    /\ IF head.t < cfg.duration
         THEN /\ queue' = Schedule(Tail(queue),
                                   Urgent(break_time(cfg, head.t), "until", 0, 0, NoPkt))
              /\ UNCHANGED finished
         ELSE /\ finished' = TRUE
              /\ queue' = Tail(queue)
    /\ hist' = [hist EXCEPT !.reported = @ + link.packet_drop,
                            !.breaks = Append(@, head.t)]
    /\ UNCHANGED <<cfg, halted, sf, rf, router>>

\* Router.__init__: self.dynamic_routing is the boolean set a few lines
\* before, so self.dynamic_routing(self.env) raises TypeError
RouterConstruct ==
    /\ halted = ""
    /\ router.pc = "constructing"
    /\ router' = [router EXCEPT !.pc = "failed"]
    /\ halted' = "TypeError"
    /\ UNCHANGED <<cfg, now, queue, finished, link, hosts, sf, rf, hist>>

Next ==
    \/ LinkInit
    \/ LinkBusy
    \/ LinkSerialized
    \/ LinkSendPacketInit
    \/ LinkDeliver
    \/ HostOutInit
    \/ HostInInit
    \/ HostSendEvent
    \/ HostFlush
    \/ HostReceiveEvent
    \/ RunInit
    \/ RunStart
    \/ SendDataInit
    \/ SendDataNext
    \/ SendDataEnd
    \/ RetransmitTimer
    \/ BatchEvent
    \/ FinEvent
    \/ RunAfterBatch
    \/ RunAfterFin
    \/ MonitorInit
    \/ MonitorAck
    \/ MonitorLast
    \/ FastInit
    \/ FastTick
    \/ ReceiverInit
    \/ ReceiverPacket
    \/ Collect
    \/ RouterConstruct

Spec == Init /\ [][Next]_vars

(***************************************************************************)
(* Single calls.  Router.__init__ raises before it returns, so no run of   *)
(* the program holds a Router: its methods are applied here to the object  *)
(* as the assignments of __init__ and add_links leave it, on a link        *)
(* between the router and host 1; the constructors of packet.py are        *)
(* applied to arguments drawn from small sets.                             *)
(***************************************************************************)
\* the names bound in the module router.py: its import and its class
RouterGlobals == {"RoutingUpdatePacket", "Router"}

\* the exception Router.receive_packet raises on a packet, "" for none: its
\* test reads Packet.PacketTypes, and it calls process_routing_packet by the
\* bare name
receive_packet_raises(packet) ==
    IF "Packet" \notin RouterGlobals THEN "NameError"
    ELSE IF get_packet_type(packet) = routing_update_packet
              /\ "process_routing_packet" \notin RouterGlobals THEN "NameError"
    ELSE ""

\* Router.receive_packet forwards the packet: no routing update, and its
\* destination has an entry in the routing table
Forwards(r, packet) ==
    /\ receive_packet_raises(packet) = ""
    /\ get_packet_type(packet) # routing_update_packet
    /\ get_destination(packet) \in DOMAIN r.routing_table

\* Router.receive_packet
RouterReceive ==
    /\ Pops("router_recv")
    /\ LET packet == head.pkt
           fwd == Forwards(router, packet)
           l1 == enqueue(link, packet, RouterId, head.t, hist.attempts + 1)
           h1 == IF fwd THEN enqueue_hist(hist, link, l1, packet, RouterId, head.t)
                        ELSE hist
       IN /\ halted' = receive_packet_raises(packet)
          /\ link' = IF fwd THEN l1 ELSE link
          /\ queue' = IF fwd THEN enqueue_wake(link, Tail(queue), packet, RouterId,
                                                head.t)
                             ELSE Tail(queue)
          /\ hist' = [h1 EXCEPT !.routed = Append(@, packet)]
    /\ UNCHANGED <<cfg, finished, hosts, sf, rf, router>>

\* the packet Router.broadcast_dist_estimates builds for a link
broadcast_packet(r, t) ==
    RoutingUpdatePacket(LinkId, BROADCAST_ID, BROADCAST_ID, t, 0, r.dist_estimates)

\* Router.broadcast_dist_estimates: a routing update on every link of the
\* router
RouterBroadcast ==
    /\ Pops("router_bcast")
    /\ LET packet == broadcast_packet(router, head.t)
           l1 == enqueue(link, packet, RouterId, head.t, hist.attempts + 1)
       IN IF LinkId \in router.links
            THEN /\ link' = l1
                 /\ queue' = enqueue_wake(link, Tail(queue), packet, RouterId, head.t)
                 /\ hist' = enqueue_hist(hist, link, l1, packet, RouterId, head.t)
            ELSE /\ queue' = Tail(queue)
                 /\ UNCHANGED <<link, hist>>
    /\ UNCHANGED <<cfg, halted, finished, hosts, sf, rf, router>>

\* the methods of RoutingUpdatePacket beyond those of Packet
RoutingUpdateMethods == {"get_distance_estimates"}

\* the hosts of the payload of a routing update for which
\* Router.process_routing_packet has new information: those without an
\* estimate and those the packet brings closer
NewInfo(r, packet, t) ==
    LET link_weight == t - get_timestamp(packet)
    IN {host_id \in DOMAIN packet.dist_estimates :
           \/ host_id \notin DOMAIN r.dist_estimates
           \/ packet.dist_estimates[host_id] + link_weight
                 < r.dist_estimates[host_id]}

\* the loop of Router.process_routing_packet on the router record
relax(r, packet, t) ==
    LET link_id == get_source(packet)
        link_weight == t - get_timestamp(packet)
        hs == NewInfo(r, packet, t)
    IN [r EXCEPT !.dist_estimates =
                     [h \in DOMAIN @ \cup hs |->
                         IF h \in hs THEN packet.dist_estimates[h] + link_weight
                                     ELSE @[h]],
                 !.new_routing_table =
                     [h \in DOMAIN @ \cup hs |-> IF h \in hs THEN link_id ELSE @[h]]]

\* the exception Router.process_routing_packet raises on a packet, "" for
\* none: past its test of dynamic_routing it reads env.now, calls
\* get_dist_estimates of the packet and, with new information,
\* broadcast_dist_estimates by the bare name
process_routing_raises(r, packet, t) ==
    IF ~r.dynamic_routing THEN ""
    ELSE IF "env" \notin RouterGlobals THEN "NameError"
    ELSE IF "get_dist_estimates" \notin RoutingUpdateMethods THEN "AttributeError"
    ELSE IF NewInfo(r, packet, t) # {}
              /\ "broadcast_dist_estimates" \notin RouterGlobals THEN "NameError"
    ELSE ""

\* the router after Router.process_routing_packet: the loop has run unless
\* the packet was dropped or an exception came before it
process_routing_packet(r, packet, t) ==
    IF \/ ~r.dynamic_routing
       \/ "env" \notin RouterGlobals
       \/ "get_dist_estimates" \notin RoutingUpdateMethods
      THEN r
      ELSE relax(r, packet, t)

\* Router.process_routing_packet
RouterProcess ==
    /\ Pops("router_proc")
    /\ LET packet == head.pkt
           raises == process_routing_raises(router, packet, head.t)
           r1 == process_routing_packet(router, packet, head.t)
           bcast == /\ raises = ""
                    /\ router.dynamic_routing
                    /\ NewInfo(router, packet, head.t) # {}
                    /\ LinkId \in router.links
           update == broadcast_packet(r1, head.t)
           l1 == enqueue(link, update, RouterId, head.t, hist.attempts + 1)
       IN /\ halted' = raises
          /\ router' = r1
          /\ link' = IF bcast THEN l1 ELSE link
          /\ queue' = IF bcast
                        THEN enqueue_wake(link, Tail(queue), update, RouterId, head.t)
                        ELSE Tail(queue)
          /\ hist' = IF bcast
                       THEN enqueue_hist(hist, link, l1, update, RouterId, head.t)
                       ELSE hist
    /\ UNCHANGED <<cfg, finished, hosts, sf, rf>>

\* the exception the generator Router.dynamic_routing raises before its
\* first yield, "" for none: it assigns the local name dynamic_routing and
\* calls broadcast_dist_estimates by the bare name
dynamic_routing_raises ==
    IF "broadcast_dist_estimates" \notin RouterGlobals THEN "NameError" ELSE ""

\* Router.dynamic_routing up to its first yield: the attribute
\* dynamic_routing of the router is left as it was
RouterSession ==
    /\ Pops("router_session")
    /\ LET update == broadcast_packet(router, head.t)
           bcast == dynamic_routing_raises = "" /\ LinkId \in router.links
           l1 == enqueue(link, update, RouterId, head.t, hist.attempts + 1)
           q1 == IF bcast
                   THEN enqueue_wake(link, Tail(queue), update, RouterId, head.t)
                   ELSE Tail(queue)
       IN /\ halted' = dynamic_routing_raises
          /\ link' = IF bcast THEN l1 ELSE link
          /\ queue' = IF dynamic_routing_raises = ""
                        THEN Schedule(q1, Normal(head.t + DYNAMIC_ROUTING_TIME,
                                                 "router_update", RouterId, 0, NoPkt))
                        ELSE q1
          /\ hist' = IF bcast
                       THEN enqueue_hist(hist, link, l1, update, RouterId, head.t)
                       ELSE hist
    /\ UNCHANGED <<cfg, finished, hosts, sf, rf, router>>

\* Router.update_routing_table on the router record
update_routing_table(r) ==
    [r EXCEPT !.routing_table = r.new_routing_table,
              !.dist_estimates = <<>>,
              !.new_routing_table = <<>>]

\* Router.update_routing_table
RouterUpdateTable ==
    /\ Pops("router_update")
    /\ router' = update_routing_table(router)
    /\ queue' = Tail(queue)
    /\ UNCHANGED <<cfg, halted, finished, link, hosts, sf, rf, hist>>

\* the constructor of the subclass of kind k on the arguments a
Construct(k, a) ==
    IF k = data_packet
      THEN DataPacket(a.src, a.flow_id, a.dest, a.timestamp, a.seq_num)
    ELSE IF k = ack_packet
      THEN AckPacket(a.src, a.flow_id, a.dest, a.timestamp, a.seq_num)
    ELSE IF k = fin_packet
      THEN FINPacket(a.src, a.flow_id, a.dest, a.timestamp, a.seq_num)
    ELSE RoutingUpdatePacket(a.src, a.flow_id, a.dest, a.timestamp, a.seq_num,
                             a.dist_estimates)

\* a call of a packet constructor
BuildPacket ==
    /\ Pops("build")
    /\ queue' = Tail(queue)
    /\ hist' = [hist EXCEPT !.built =
                    Append(@, [kind |-> head.who, args |-> head.pkt,
                               packet |-> Construct(head.who, head.pkt)])]
    /\ UNCHANGED <<cfg, halted, finished, link, hosts, sf, rf, router>>

\* the inputs of the calls
DistEstimates == {<<>>, (1 :> 0)}
RoutingTables == {<<>>, (1 :> LinkId)}

ConstructorArgs ==
    [src : {0, LinkId}, flow_id : {3, BROADCAST_ID}, dest : {1, BROADCAST_ID},
     timestamp : {0, 30}, seq_num : {FIN_SEQ, 0, 15}, dist_estimates : {(1 :> 0)}]

RouterPackets ==
    {DataPacket(0, 3, 1, 0, 1), AckPacket(1, 3, 0, 0, 2),
     FINPacket(0, 3, 1, 0, FIN_SEQ),
     RoutingUpdatePacket(LinkId, BROADCAST_ID, BROADCAST_ID, 0, 0, (1 :> 0))}

\* the router with its link, a routing table and distance estimates
BuiltRouter(tbl, dist) ==
    [NewRouter EXCEPT !.links = {LinkId}, !.routing_table = tbl,
                      !.dist_estimates = dist, !.pc = "built"]

\* the routing updates handed to Router.process_routing_packet
UpdatePackets ==
    {RoutingUpdatePacket(LinkId, BROADCAST_ID, BROADCAST_ID, ts, 0, d) :
        ts \in {0, 1}, d \in {(1 :> 0), (1 :> 4), (0 :> 2) @@ (1 :> 0)}}

\* the router in a dynamic routing phase or outside one, with the estimates
\* and the table built so far; dynamic_routing is True only where a caller
\* has set the attribute
PhaseRouter(flag, tbl, dist) ==
    [BuiltRouter(tbl, <<>>) EXCEPT
        !.dynamic_routing = flag,
        !.dist_estimates = dist,
        !.new_routing_table = [h \in DOMAIN dist |-> LinkId]]

\* a call and the router it is made on
Calls ==
    {[ev |-> Normal(1, "build", k, 0, a), router |-> BuiltRouter(<<>>, <<>>)] :
        k \in PacketTypes, a \in ConstructorArgs}
    \cup
    {[ev |-> Normal(1, "router_recv", RouterId, 0, p),
      router |-> BuiltRouter(tbl, <<>>)] :
        p \in RouterPackets, tbl \in RoutingTables}
    \cup
    {[ev |-> Normal(t, "router_bcast", RouterId, 0, NoPkt),
      router |-> BuiltRouter(<<>>, d)] :
        t \in {1, 100}, d \in DistEstimates}
    \cup
    {[ev |-> Normal(1, "router_proc", RouterId, 0, p),
      router |-> PhaseRouter(flag, tbl, d)] :
        p \in UpdatePackets, flag \in BOOLEAN, tbl \in RoutingTables,
        d \in {<<>>, (1 :> 0), (1 :> 3)}}
    \cup
    {[ev |-> Normal(1, k, RouterId, 0, NoPkt),
      router |-> PhaseRouter(FALSE, tbl, d)] :
        k \in {"router_session", "router_update"}, tbl \in RoutingTables,
        d \in {<<>>, (1 :> 3)}}

CallConfigs ==
    [rate : Rates, delay : {0, 10}, cap_kb : CapsKB, interval : Intervals,
     duration : {Duration}, nrouters : {1}, ends : {<<RouterId, 1>>},
     flows : {[f \in FlowIds |-> NoFlowCfg]}]

\* the hosts and the link as constructed, their processes about to start,
\* and one call
UnitInit ==
    /\ cfg \in CallConfigs
    /\ now = 0
    /\ \E c \in Calls :
          /\ queue = InitQueue(cfg) \o <<Urgent(0, "link_init", LinkId, 0, NoPkt), c.ev>>
          /\ router = c.router
    /\ halted = ""
    /\ finished = FALSE
    /\ link = NewLink(cfg.rate, cfg.delay, cfg.cap_kb)
    /\ hosts = [h \in HostIds |-> NewHost(h)]
    /\ sf = [f \in FlowIds |-> NewSendingFlow(f, cfg.flows[f])]
    /\ rf = [f \in RecvIds |-> NoReceivingFlow]
    /\ hist = NoHist

UnitNext ==
    \/ LinkInit
    \/ LinkBusy
    \/ LinkSerialized
    \/ LinkSendPacketInit
    \/ LinkDeliver
    \/ HostOutInit
    \/ HostInInit
    \/ HostReceiveEvent
    \/ ReceiverInit
    \/ ReceiverPacket
    \/ RouterReceive
    \/ RouterBroadcast
    \/ RouterProcess
    \/ RouterSession
    \/ RouterUpdateTable
    \/ BuildPacket

UnitSpec == UnitInit /\ [][UnitNext]_vars

\* the event loop runs while an event is scheduled before the end
FairSpec == Spec /\ WF_vars(Next)

TypeOK ==
    /\ now \in 0..cfg.duration + 1
    /\ halted \in {"", "notify_collision", "AssertionError", "RuntimeError",
                   "ZeroDivisionError", "TypeError", "NameError",
                   "AttributeError"}

(***************************************************************************)
(* Properties.                                                             *)
(***************************************************************************)
\* the drops of the link over all reporting cycles
drops == hist.reported + link.packet_drop

\* the sending flows of the run
Senders == {f \in FlowIds : sf[f].exists}

\* a step of a monitor that handles the packet at hand for flow f
HandlesAck(f) ==
    /\ Running
    /\ head.k = "frecv_ev"
    /\ head.who = f
    /\ sf[f].mon_pc = "wait_ack"

\* a step of a host that hands its one buffered packet to Link.enqueue
CallsEnqueue ==
    /\ Running
    /\ head.k = "hout_to"
    /\ SinglePacket(hosts[head.who])

\* C1: on each of the two directions of the link, the bytes accounted to the
\* buffer never exceed the capacity of the buffer.
C1_BufferCapacity ==
    \A x \in 1..2 : link.buffer_used[x] <= link.buffer_size

\* a buffer filled to its capacity after the link has dropped a packet
C1_Witness ==
    /\ link.packet_drop > 0
    /\ \E x \in 1..2 : /\ link.buffer_used[x] = link.buffer_size
                       /\ Len(link.buffer[x]) > 0

C3_FlowTermination ==
    (finished /\ drops = 0 /\ cfg.delay = 0) =>
        \A f \in Senders : /\ sf[f].end_time # NoneVal
                           /\ sf[f].end_time > sf[f].start_time
                           /\ sf[f].data_amt = 0

\* C4: the req_num of a receiving flow never decreases, whatever data packet
\* it is handed (a receiving flow created anew for the id is another flow).
C4_ReqNumMonotone ==
    [][\A f \in FlowIds :
         \/ rf'[f].req_num >= rf[f].req_num
         \/ (rf'[f].pc = "new" /\ rf[f].pc # "new")]_vars

\* a receiver past its first packet whose last data packet was not the one
\* it expected: a duplicate, or one beyond a gap
C4_Witness ==
    \E f \in FlowIds : /\ rf[f].exists
                       /\ rf[f].req_num > 1
                       /\ hist.last_seq[f] # NoneVal
                       /\ hist.last_seq[f] + 1 # rf[f].req_num

\* C5: on each direction of the link, of two packets admitted the one that
\* was enqueued no later reaches the far end no later: the packets are
\* admitted in the order of their enqueue times, the packets delivered so
\* far are the first of the packets admitted, in the same order, and their
\* delivery times do not decrease.
C5_SerializationOrder ==
    \A x \in 1..2 :
        LET adm == hist.admitted[x]
            del == hist.delivered[x]
        IN /\ Len(del) <= Len(adm)
           /\ \A i \in 1..Len(del) : del[i].aid = adm[i].aid
           /\ \A i, j \in 1..Len(adm) : i < j => adm[i].ts <= adm[j].ts
           /\ \A i, j \in 1..Len(del) : i < j => del[i].at <= del[j].at

\* both directions have delivered several packets and both buffers hold one
C5_Witness ==
    \A x \in 1..2 : /\ Len(hist.delivered[x]) >= 2
                    /\ Len(link.buffer[x]) > 0

\* C6: the calls of Link.enqueue are the calls that put a packet into a
\* buffer plus the drops, the drops counted over all reporting cycles.
C6_DropAccounting ==
    hist.attempts = Len(hist.admitted[1]) + Len(hist.admitted[2]) + drops

\* drops have been reported and cleared, and a buffer holds a packet admitted
\* since
C6_Witness ==
    /\ hist.reported > 0
    /\ link.packet_drop = 0
    /\ Len(link.buffer[1]) + Len(link.buffer[2]) > 0

\* C7: a call of Link.enqueue adds one to the drop counter if and only if the
\* bytes in use for the source plus the size of the packet exceed the
\* capacity, and otherwise leaves the counter alone; a drop changes neither
\* buffer, neither counter of bytes in use, nor the busy event, and raises
\* nothing.
C7_TailDrop ==
    [][CallsEnqueue =>
         LET h == head.who
             size == hosts[h].outgoing_packets[1].length
             exceeds == link.buffer_used[BufOf(h)] + size > link.buffer_size
         IN /\ exceeds => link'.packet_drop = link.packet_drop + 1
            /\ ~exceeds => link'.packet_drop = link.packet_drop
            /\ exceeds => /\ link'.buffer = link.buffer
                          /\ link'.buffer_used = link.buffer_used
                          /\ link'.busy = link.busy
                          /\ halted' = ""]_vars

\* the link has dropped a packet while it was serializing another, and the
\* run goes on
C7_Witness ==
    /\ link.packet_drop > 0
    /\ link.pc = "serializing"
    /\ halted = ""

\* the routing table of the router maps every host to the link towards it
RoutesConverged ==
    /\ router.pc \notin {"constructing", "failed", "absent"}
    /\ \A h \in HostIds : /\ h \in DOMAIN router.routing_table
                          /\ router.routing_table[h] = LinkId

\* C8: on a topology with a router and no link change, once the program has
\* come to rest the routing table of the router maps every destination host
\* to the first link of a shortest path.
C8_RoutingConvergence ==
    (cfg.nrouters > 0 /\ (halted # "" \/ finished)) => RoutesConverged

\* C9: once a sending flow has started its first batch, batch_start is at
\* most window_end + 1.
C9_BatchStartBound ==
    \A f \in Senders :
        sf[f].window_end # NoneVal => sf[f].batch_start <= sf[f].window_end + 1

\* C10: the end_ms of a sending flow changes only from unset to a value, and
\* only in a step taken when data_remaining is 0 and the reply to the FIN has
\* been received.
C10_EndTimeSetOnce ==
    [][\A f \in Senders :
         sf'[f].end_time # sf[f].end_time =>
             /\ sf[f].end_time = NoneVal
             /\ sf'[f].end_time # NoneVal
             /\ sf[f].data_amt = 0
             /\ sf'[f].data_amt = 0
             /\ Triggered(sf[f].received_fin_event)]_vars

\* a flow has ended after it had to send its FIN again: the receiver that
\* answered is one created for the second FIN
C10_Witness ==
    \E f \in Senders : /\ sf[f].end_time # NoneVal
                       /\ sf[f].run_pc = "done"
                       /\ sf[f].batch_start > 1
                       /\ rf[f].pc = "ended"
                       /\ rf[f].req_num = 1

\* C11: the data_remaining of a sending flow never grows: no step of the run
\* (an ACK, a timeout, a retransmission, a tick of the FAST timer) raises it.
C11_DataNonIncreasing ==
    [][\A f \in Senders : sf'[f].data_amt <= sf[f].data_amt]_vars

\* a flow that has been credited part of its data and has gone through a
\* timeout or a fast retransmit (Tahoe), or a tick of its timer (FAST), since
C11_Witness ==
    \E f \in Senders :
        /\ sf[f].data_amt > 0
        /\ sf[f].data_amt < hist.init_data[f]
        /\ \/ sf[f].cc = "Tahoe" /\ sf[f].ssthresh # RInt(INIT_SSTHRESH)
           \/ sf[f].cc = "FAST" /\ sf[f].window_size # RInt(FAST_WINDOW)
\* the packets of type k that host h has passed to the link
Sent(h, k) == hist.sent[h][k]

\* the scenario of the FIN handshake: one flow, from host 0 to host 1, with
\* the data of exactly one data packet, on a link that has dropped nothing
FinScenario ==
    /\ cfg.nrouters = 0
    /\ cfg.flows[3].exists
    /\ ~cfg.flows[4].exists
    /\ cfg.flows[3].data = DATA_PCK_SIZE
    /\ drops = 0

\* the run holds at most one packet of each kind, and at its end exactly
\* one; the flow has its end_ms and the receiving flow has ended
FinHandshake ==
    /\ Sent(0, data_packet) <= 1
    /\ Sent(1, ack_packet) <= 1
    /\ Sent(0, fin_packet) <= 1
    /\ Sent(1, fin_packet) <= 1
    /\ finished =>
          /\ Sent(0, data_packet) = 1
          /\ Sent(1, ack_packet) = 1
          /\ Sent(0, fin_packet) = 1
          /\ Sent(1, fin_packet) = 1
          /\ sf[3].end_time # NoneVal
          /\ rf[3].pc = "ended"

\* the ACK of the first data packet is back before the initial retransmit
\* timeout: the serialization of the data packet and of the ACK and twice
\* the delay of the link take less than 3000 ms
AckBeforeTimeout ==
    (DATA_PACKET_LENGTH + ACKNOWLEDGMENT_PACKET_LENGTH) \div cfg.rate
        + 2 * cfg.delay < INIT_RETRANSMIT_TIMEOUT

\* C12, as stated: on a lossless link between two hosts, a flow of exactly
\* one data packet (1 KB) gives a run with exactly one Data packet, one Ack,
\* one FIN of the sender and one FIN of the receiver, after which end_ms is
\* set and the receiving flow has ended.
C12_FinHandshake_AnyDelay == FinScenario => FinHandshake

\* C12, amended: the same, on a link whose round trip is below the initial
\* retransmit timeout of 3000 ms (as the 10 ms link of scenario S1).
C12_FinHandshake == (FinScenario /\ AckBeforeTimeout) => FinHandshake

\* the end of a run of the scenario on the 10 ms link, with one packet of
\* each kind sent
C12_Witness ==
    /\ FinScenario
    /\ cfg.delay = 10
    /\ finished
    /\ Sent(0, data_packet) = 1
    /\ Sent(1, fin_packet) = 1
    /\ sf[3].end_time # NoneVal
\* C13: the outbound driver of a host passes every packet it finds buffered
\* at a resume to Link.enqueue, whatever their number: no packet handed to
\* Host.send_packet is left out, and the driver raises nothing.
C13_OutboundFlushesAll ==
    /\ hist.unsent = 0
    /\ halted # "notify_collision"
\* a step of the inbound driver of a host: it takes the packet delivered
HostTakesPacket ==
    /\ Running
    /\ head.k = "recv_ev"

\* C14: the inbound driver of a host takes the packet the link delivered and
\* leaves none behind; when the flow_id of the packet is registered in the
\* flows of the host the packet is appended to the received packets of that
\* flow (Flow.receive_packet); when it is not, a receiving flow with that
\* flow_id is created at the host (req_num 1, towards the source of the
\* packet), registered, and handed that packet as its first; nothing is
\* raised.
C14_InboundDispatch ==
    [][HostTakesPacket =>
         LET h == head.who
             packet == Last(hosts[h].incoming_packets)
             f == packet.flow_id
             known == f \in hosts[h].flows
             sender == sf[f].exists /\ sf[f].src_host_id = h
         IN /\ hosts'[h].incoming_packets = <<>>
            /\ f \in hosts'[h].flows
            /\ halted' = ""
            /\ (known /\ sender) =>
                  /\ sf'[f].received_packets = Append(sf[f].received_packets, packet)
                  /\ rf' = rf
            /\ (known /\ ~sender) =>
                  /\ rf'[f].received_packets = Append(rf[f].received_packets, packet)
                  /\ rf'[f].req_num = rf[f].req_num
                  /\ sf' = sf
            /\ ~known =>
                  /\ rf'[f].exists
                  /\ rf'[f].src_host_id = h
                  /\ rf'[f].dest_host_id = packet.src
                  /\ rf'[f].req_num = 1
                  /\ rf'[f].pc = "new"
                  /\ rf'[f].received_packets = <<packet>>
                  /\ sf' = sf]_vars

\* a receiving flow that was created for a packet whose flow_id its host did
\* not know, is registered there, and has been handed further packets since
C14_Witness ==
    \E f \in FlowIds :
        /\ rf[f].exists
        /\ f \in hosts[rf[f].src_host_id].flows
        /\ rf[f].req_num > 2
        /\ Len(rf[f].received_packets) = 1
\* the inbound driver of host h has taken a packet of the link
TookPacket(h) == hosts[h].num_packets_received > 0

\* C15: a RoutingUpdate packet delivered to a host is ignored: once the host
\* has taken it, the host has no flow for it, no flow has been created, none
\* of its flows has raised an error, and it has sent nothing; and the router
\* has passed no RoutingUpdate packet to the link, whose other end is a host.
C15_RoutingUpdateIgnored ==
    \A h \in HostIds :
        TookPacket(h) =>
            /\ BROADCAST_ID \notin hosts[h].flows
            /\ ~rf[BROADCAST_ID].exists
            /\ halted # "AssertionError"
            /\ hosts[h].outgoing_packets = <<>>
            /\ Sent(RouterId, routing_update_packet) = 0
\* C16: after Router.receive_packet on a packet, nothing has been raised;
\* a packet that is no RoutingUpdate and whose destination has an entry in
\* the routing table has been passed to Link.enqueue of that link exactly
\* once; any other packet has been passed to no link.
C16_RouterForwarding ==
    \A i \in 1..Len(hist.routed) :
        LET p == hist.routed[i]
        IN /\ halted = ""
           /\ IF p.packet_type # routing_update_packet
                   /\ p.dest \in DOMAIN router.routing_table
                THEN /\ hist.attempts = 1
                     /\ Sent(RouterId, p.packet_type) = 1
                ELSE hist.attempts = 0

\* the least element of a non-empty set of numbers
Min(S) == CHOOSE x \in S : \A y \in S : x <= y

\* C17: every RTT sample a sending flow has taken (now minus the timestamp
\* of the ACK) is non-negative, its rtt is one of the samples, and the
\* base_rtt of a FAST flow that has taken a sample is the least of its
\* samples.  FAST_monitor_incoming_pkts takes min(rtt, base_rtt) from a
\* base_rtt of INIT_BASE_RTT, so samples above it leave base_rtt there.
C17_RttSamples ==
    \A f \in Senders :
        /\ \A x \in hist.samples[f] : x >= 0
        /\ hist.samples[f] # {} =>
              /\ sf[f].rtt \in hist.samples[f]
              /\ sf[f].cc = "FAST" => sf[f].base_rtt = Min(hist.samples[f])
\* the "until" events of the queue
Untils == {i \in 1..Len(queue) : queue[i].k = "until"}

\* C18: MainEnv.start advances the clock to min(now + interval, duration)
\* and then collects once: the clock never passes duration, every
\* collection is at the end of the slice that begins at the collection
\* before it, one slice is under way while the loop runs, and the loop has
\* ended exactly when a collection was made at duration.
C18_ReportLoop ==
    LET b == hist.breaks
        from(i) == IF i = 1 THEN 0 ELSE b[i - 1]
        min(x, y) == IF x < y THEN x ELSE y
    IN /\ now <= cfg.duration
       /\ \A i \in 1..Len(b) :
             /\ b[i] = min(from(i) + cfg.interval, cfg.duration)
             /\ b[i] > from(i)
       /\ finished <=> (b # <<>> /\ b[Len(b)] = cfg.duration)
       /\ (cfg.nrouters = 0 /\ ~finished) =>
             /\ Cardinality(Untils) = 1
             /\ \A i \in Untils :
                   queue[i].t = min(from(Len(b) + 1) + cfg.interval, cfg.duration)

\* a run that has ended after a last slice shorter than the interval
C18_Witness ==
    /\ finished
    /\ Len(hist.breaks) >= 2
    /\ hist.breaks[Len(hist.breaks)] - hist.breaks[Len(hist.breaks) - 1]
         < cfg.interval
\* C19: a packet built by the constructor of a subclass has the kind of the
\* subclass and the length of the kind (Data 1024, Ack 64, FIN 64,
\* RoutingUpdate 1024 bytes) whatever the other arguments, and its
\* accessors return the source, flow id, destination, timestamp and
\* sequence number it was built with.
C19_PacketConstructors ==
    \A i \in 1..Len(hist.built) :
        LET b == hist.built[i]
            p == b.packet
        IN /\ get_packet_type(p) = b.kind
           /\ b.kind = data_packet => get_length(p) = 1024
           /\ b.kind = ack_packet => get_length(p) = 64
           /\ b.kind = fin_packet => get_length(p) = 64
           /\ b.kind = routing_update_packet => get_length(p) = 1024
           /\ get_source(p) = b.args.src
           /\ get_flow_id(p) = b.args.flow_id
           /\ get_destination(p) = b.args.dest
           /\ get_timestamp(p) = b.args.timestamp
           /\ get_seq_num(p) = b.args.seq_num

\* a FIN packet built with a sequence number and a timestamp of its own
C19_Witness ==
    \E i \in 1..Len(hist.built) :
        /\ hist.built[i].kind = fin_packet
        /\ hist.built[i].args.seq_num = 15
        /\ hist.built[i].args.timestamp = 30
        /\ hist.built[i].args.flow_id = BROADCAST_ID
\* a step of the receiving flow f on a data packet
ReceivesData(f) ==
    /\ Running
    /\ head.k = "rrecv_ev"
    /\ head.who = f
    /\ rf[f].pc = "wait"
    /\ rf[f].received_packets # <<>>
    /\ Last(rf[f].received_packets).packet_type = data_packet

\* the step of the receiver: req_num moves by one exactly on the packet it
\* expects, and one ACK with the new req_num and the timestamp of the data
\* packet is handed to the host
AcksData ==
    \A f \in FlowIds :
        ReceivesData(f) =>
            LET data == Last(rf[f].received_packets)
                h == rf[f].src_host_id
                out == hosts'[h].outgoing_packets
            IN /\ rf'[f].req_num = rf[f].req_num
                                      + (IF data.seq_num = rf[f].req_num THEN 1 ELSE 0)
               /\ Len(out) = Len(hosts[h].outgoing_packets) + 1
               /\ SubSeq(out, 1, Len(out) - 1) = hosts[h].outgoing_packets
               /\ hosts'[1 - h].outgoing_packets = hosts[1 - h].outgoing_packets
               /\ out[Len(out)].packet_type = ack_packet
               /\ out[Len(out)].flow_id = f
               /\ out[Len(out)].seq_num = rf'[f].req_num
               /\ out[Len(out)].timestamp = data.timestamp
               /\ out[Len(out)].src = h
               /\ out[Len(out)].dest = rf[f].dest_host_id

\* the sender has not moved batch_start past a data packet that no receiving
\* flow of the id has handled
BatchStartBehindData ==
    \A f \in Senders :
        \A n \in 1..sf[f].batch_start - 1 : n \in hist.got[f]

\* C20: on a data packet with sequence number s a receiving flow adds one
\* to req_num if s is req_num and leaves it otherwise, and hands its host
\* exactly one ACK whose seq_num is the req_num after the step and whose
\* timestamp is that of the data packet; and the batch_start of the sender
\* does not pass a sequence number before its data packet has arrived.
C20_ReceiverAcks == [][AcksData]_vars /\ []BatchStartBehindData

\* data packet 3 has arrived before data packet 2: the receiver still asks
\* for 2 and the sender has not moved past it
C20_Witness ==
    \E f \in Senders :
        /\ rf[f].req_num = 2
        /\ hist.last_seq[f] = 3
        /\ 2 \notin hist.got[f]
        /\ sf[f].batch_start <= 2
\* a FIN reply has been delivered to the sending flow f: its monitor has
\* taken it, or it lies in received_packets
FinReplyDelivered(f) ==
    \/ Triggered(sf[f].received_fin_event)
    \/ \E i \in 1..Len(sf[f].received_packets) :
          sf[f].received_packets[i].packet_type = fin_packet

\* C21: a sending flow whose data is all acknowledged and to which a FIN
\* reply has been delivered has its end_time by the end of the run, whatever
\* other packets (late or duplicate ACKs of data sent again) were delivered
\* to it before the FIN reply.
C21_FinishingToDone ==
    \A f \in Senders :
        (finished /\ sf[f].data_amt = 0 /\ FinReplyDelivered(f))
            => sf[f].end_time # NoneVal
\* C22: received_batch_event of a sending flow is fired at most once between
\* two resets: no ACK handler calls succeed() on the event while it is
\* triggered, which would end the run with a RuntimeError.
C22_BatchEventOnce == halted # "RuntimeError"
\* a step of the monitor of f on an ACK of the current round
HandlesFreshAck(f) ==
    /\ HandlesAck(f)
    /\ Last(sf[f].received_packets).packet_type = ack_packet
    /\ ~Stale(sf[f], Last(sf[f].received_packets))

\* the window and is_CA after k newly acknowledged segments, one increase
\* for each: by 1 / window in congestion avoidance, by 1 in slow start, and
\* congestion avoidance from the segment on at which window >= ssthresh
RECURSIVE GrowPerSegment(_, _, _, _)
GrowPerSegment(w, ca, ssthresh, k) ==
    IF k <= 0 THEN [window_size |-> w, is_CA |-> ca]
    ELSE LET w1 == IF ca THEN RAdd(w, Rat(w.d, w.n)) ELSE RAdd(w, RInt(1))
         IN GrowPerSegment(w1, ca \/ RGeq(w1, ssthresh), ssthresh, k - 1)

\* C23: when a Tahoe flow handles an ACK of the current round with
\* req > batch_start, its window is increased once for each of the
\* req - batch_start newly acknowledged segments (by 1 / window in congestion
\* avoidance, by 1 in slow start), and is_CA is set as soon as
\* window >= ssthresh.
C23_TahoeGrowth ==
    [][\A f \in Senders :
         LET s == sf[f]
             req == Last(s.received_packets).seq_num
             grown == GrowPerSegment(s.window_size, s.is_CA, s.ssthresh,
                                     req - s.batch_start)
         IN (HandlesFreshAck(f) /\ s.cc = "Tahoe" /\ req > s.batch_start) =>
               /\ sf'[f].window_size = grown.window_size
               /\ sf'[f].is_CA = grown.is_CA]_vars
\* the step of the run loop of f after the wait that follows a batch
AfterBatchWait(f) ==
    /\ Running
    /\ head.k = "cond"
    /\ head.who = f
    /\ sf[f].run_pc = "wait_batch"

\* C24: when the wait after a batch was ended by the retransmit timeout, a
\* Tahoe flow sets ssthresh to max(window / 2, 2), window to 1 and is_CA to
\* false and, with data left, starts the next round from the same
\* batch_start; a FAST flow starts the next round with its window as it
\* was.  When the wait was ended by received_batch_event, the run loop
\* resets the event and leaves window, ssthresh and is_CA as they were.
C24_TimeoutResponse ==
    [][\A f \in Senders :
         LET s == sf[f]
             half == Rat(s.window_size.n, 2 * s.window_size.d)
             resends == s.data_amt > 0 =>
                           /\ sf'[f].run_pc = "in_send_data"
                           /\ sf'[f].batch_start = s.batch_start
         IN AfterBatchWait(f) =>
              /\ hist.woke[f] \in {"timeout", "event"}
              /\ (hist.woke[f] = "timeout" /\ s.cc = "Tahoe") =>
                    /\ sf'[f].ssthresh = IF RGeq(half, RInt(2)) THEN half ELSE RInt(2)
                    /\ sf'[f].window_size = RInt(1)
                    /\ sf'[f].is_CA = FALSE
                    /\ resends
              /\ (hist.woke[f] = "timeout" /\ s.cc = "FAST") =>
                    /\ sf'[f].window_size = s.window_size
                    /\ resends
              /\ hist.woke[f] = "event" =>
                    /\ Triggered(s.received_batch_event)
                    /\ sf'[f].received_batch_event = "pending"
                    /\ sf'[f].window_size = s.window_size
                    /\ sf'[f].ssthresh = s.ssthresh
                    /\ sf'[f].is_CA = s.is_CA]_vars

\* a Tahoe flow in congestion avoidance with a window of 2 or more whose
\* wait has been ended by the timeout
C24_Witness ==
    \E f \in Senders :
        /\ AfterBatchWait(f)
        /\ hist.woke[f] = "timeout"
        /\ sf[f].cc = "Tahoe"
        /\ sf[f].is_CA
        /\ RGeq(sf[f].window_size, RInt(2))
\* the step of a Tahoe flow on an ACK of the current round, where a
\* duplicate (req = batch_start) is counted when Counted holds of the time
\* since the last counted duplicate: a counted duplicate adds one to
\* dup_ack; at DUP_ACK duplicates the flow hands its host one Data packet
\* with seq batch_start, clears dup_ack and enters slow start; an ACK with
\* req > batch_start clears dup_ack
DupAckStep(f, Counted(_)) ==
    LET s == sf[f]
        req == Last(s.received_packets).seq_num
        h == s.src_host_id
        out == hosts[h].outgoing_packets
        out1 == hosts'[h].outgoing_packets
        counted == Counted(head.t - s.last_dup)
        dups == IF counted THEN s.dup_ack + 1 ELSE s.dup_ack
        half == Rat(s.window_size.n, 2 * s.window_size.d)
    IN (HandlesFreshAck(f) /\ s.cc = "Tahoe") =>
          /\ req > s.batch_start => sf'[f].dup_ack = 0 /\ out1 = out
          /\ req < s.batch_start => sf'[f].dup_ack = s.dup_ack /\ out1 = out
          /\ req = s.batch_start =>
                /\ sf'[f].last_dup = IF counted THEN head.t ELSE s.last_dup
                /\ IF dups = DUP_ACK
                     THEN /\ sf'[f].dup_ack = 0
                          /\ out1 = Append(out, DataPacket(h, f, s.dest_host_id,
                                                           head.t, s.batch_start))
                          /\ sf'[f].window_size = RInt(1)
                          /\ sf'[f].is_CA = FALSE
                          /\ sf'[f].ssthresh =
                                IF RGeq(half, RInt(2)) THEN half ELSE RInt(2)
                     ELSE /\ sf'[f].dup_ack = dups
                          /\ out1 = out
                          /\ sf'[f].window_size = s.window_size

\* more than, and at least, DUP_GAP ms
MoreThanGap(d) == d > DUP_GAP
AtLeastGap(d) == d >= DUP_GAP

\* C25, as stated: a duplicate ACK is counted only if more than 16 ms have
\* passed since the last counted duplicate.
C25_DupAcks_MoreThan == [][\A f \in Senders : DupAckStep(f, MoreThanGap)]_vars

\* C25, amended: a duplicate ACK is counted if at least 16 ms have passed
\* since the last counted duplicate.
C25_DupAcks == [][\A f \in Senders : DupAckStep(f, AtLeastGap)]_vars

\* a Tahoe flow handles its third counted duplicate, 16 ms after the second
C25_Witness ==
    \E f \in Senders :
        /\ HandlesFreshAck(f)
        /\ sf[f].cc = "Tahoe"
        /\ Last(sf[f].received_packets).seq_num = sf[f].batch_start
        /\ sf[f].dup_ack = DUP_ACK - 1
        /\ head.t - sf[f].last_dup = DUP_GAP

\* a step of the monitor of f on an ACK stamped before the start of the
\* current round
HandlesStaleAck(f) ==
    /\ HandlesAck(f)
    /\ Last(sf[f].received_packets).packet_type = ack_packet
    /\ Last(sf[f].received_packets).timestamp < sf[f].window_start_time

\* the "batch_ev" events of the queue q for the flow f
BatchEvents(q, f) == {i \in 1..Len(q) : q[i].k = "batch_ev" /\ q[i].who = f}

\* C26: an ACK whose timestamp is earlier than window_start_time leaves
\* batch_start, data_amt, window_size, ssthresh, is_CA and dup_ack as they
\* were, hands no packet to the host and does not fire
\* received_batch_event.
C26_StaleAckIgnored ==
    [][\A f \in Senders :
         HandlesStaleAck(f) =>
            /\ sf'[f].batch_start = sf[f].batch_start
            /\ sf'[f].data_amt = sf[f].data_amt
            /\ sf'[f].window_size = sf[f].window_size
            /\ sf'[f].ssthresh = sf[f].ssthresh
            /\ sf'[f].is_CA = sf[f].is_CA
            /\ sf'[f].dup_ack = sf[f].dup_ack
            /\ sf'[f].last_dup = sf[f].last_dup
            /\ sf'[f].received_batch_event = sf[f].received_batch_event
            /\ Cardinality(BatchEvents(queue', f)) = Cardinality(BatchEvents(queue, f))
            /\ \A h \in HostIds :
                  hosts'[h].outgoing_packets = hosts[h].outgoing_packets
            /\ halted' = ""]_vars

\* a stale ACK at hand that asks for more than batch_start, in a round that
\* it would complete
C26_Witness ==
    \E f \in Senders :
        /\ HandlesStaleAck(f)
        /\ Last(sf[f].received_packets).seq_num > sf[f].batch_start
        /\ Last(sf[f].received_packets).seq_num = sf[f].window_end + 1
\* C27: a retransmit timer armed for one wait causes no timeout response
\* later: whenever the run loop of a flow resumes from the wait after a
\* batch without received_batch_event (a Tahoe flow enters slow start, and
\* the data is sent again), the wait of the current round has lasted exactly
\* its retransmit_timeout and was ended by its own timer; and a wait ended
\* by the event has lasted no longer than that.
C27_StaleTimers ==
    [][\A f \in Senders :
         AfterBatchWait(f) =>
            /\ ~Triggered(sf[f].received_batch_event) =>
                  /\ head.t = hist.wait_at[f] + sf[f].retransmit_timeout
                  /\ hist.woke[f] = "timeout"
                  /\ head.gen = sf[f].cond_id
            /\ Triggered(sf[f].received_batch_event) =>
                  /\ head.t <= hist.wait_at[f] + sf[f].retransmit_timeout
                  /\ hist.woke[f] = "event"]_vars

\* the timer of an earlier wait expires while the flow is in the wait of a
\* later round
C27_Witness ==
    /\ Running
    /\ head.k = "rto"
    /\ head.gen < sf[head.who].cond_id
    /\ sf[head.who].run_pc = "wait_batch"
    /\ sf[head.who].cond = "pending"
    /\ head.t < hist.wait_at[head.who] + sf[head.who].retransmit_timeout

\* the whole numbers from a to b, in increasing order
Range(a, b) == [i \in 1..(b - a + 1) |-> a + i - 1]

\* the step that starts a call of send_data for f
StartsRound(f) == Running /\ head.k = "sd_init" /\ head.who = f

\* the whole packets in the window and in the data left, whichever is less
RoundLength(s) ==
    IF RFloor(s.window_size) <= s.data_amt \div DATA_PCK_SIZE
      THEN RFloor(s.window_size)
      ELSE s.data_amt \div DATA_PCK_SIZE

\* C28: a call of send_data sets window_start to batch_start and window_end
\* to batch_start + min(window_size, data_amt / DATA_PCK_SIZE) - 1, in whole
\* packets, and hands the host one Data packet for each sequence number from
\* window_start to window_end, in increasing order, and no other.
C28_GoBackNRound ==
    /\ [][\A f \in Senders :
            StartsRound(f) =>
               /\ sf'[f].window_start = sf[f].batch_start
               /\ sf'[f].window_end = sf[f].batch_start + RoundLength(sf[f]) - 1]_vars
    /\ [](\A f \in Senders :
            /\ sf[f].sd_pc = "pacing" =>
                  /\ Len(hist.round[f]) <= sf[f].window_end - sf[f].window_start + 1
                  /\ hist.round[f] = Range(sf[f].window_start,
                                           sf[f].window_start + Len(hist.round[f]) - 1)
            /\ sf[f].sd_pc = "done" =>
                  hist.round[f] = Range(sf[f].window_start, sf[f].window_end))

\* a round of three packets after the first has ended, while the window
\* is not a whole number
C28_Witness ==
    \E f \in Senders :
        /\ sf[f].sd_pc = "done"
        /\ Len(hist.round[f]) = 3
        /\ sf[f].window_size.d > 1
        /\ sf[f].window_start > 1

\* the step is a tick of the FAST timer of f
TicksFast(f) == Running /\ head.k = "fast_to" /\ head.who = f

\* the ticks of the FAST timer of f that the queue q holds
FastEvents(q, f) == {i \in 1..Len(q) : q[i].k = "fast_to" /\ q[i].who = f}

SendsFin(f) ==
    LET out == hosts[sf[f].src_host_id].outgoing_packets
        out1 == hosts'[sf[f].src_host_id].outgoing_packets
    IN /\ Len(out1) = Len(out) + 1
       /\ Last(out1).packet_type = fin_packet
       /\ Last(out1).flow_id = f

\* the step of the run loop of f after a wait of the FIN loop
AfterFinWait(f) ==
    /\ Running
    /\ head.k = "cond"
    /\ head.who = f
    /\ sf[f].run_pc = "wait_fin"

\* C30: a sending flow hands its host no FIN packet while data_amt > 0; in
\* the FIN loop it sends the FIN again whenever its wait is ended by the
\* retransmit timeout and no FIN reply has been delivered to it, and it
\* sends no FIN once a FIN reply has been delivered to it.
C30_SendingToFinishing ==
    [][\A f \in Senders :
         /\ SendsFin(f) =>
               /\ ~(sf[f].data_amt > 0)
               /\ ~FinReplyDelivered(f)
         /\ (AfterFinWait(f) /\ hist.woke[f] = "timeout" /\ ~FinReplyDelivered(f)) =>
               SendsFin(f)]_vars

\* the step of the receiving flow of f on a FIN
HandlesFin(f) ==
    /\ Running
    /\ head.k = "rrecv_ev"
    /\ head.who = f
    /\ rf[f].pc = "wait"
    /\ Last(rf[f].received_packets).packet_type = fin_packet

\* C31: a receiving flow that takes a FIN hands its host exactly one FIN
\* packet, with the flow id of the FIN and addressed from its host to the
\* data sender, ends and is removed from the flows of its host; an ended
\* receiving flow takes no packet, hands its host none and stays out of the
\* flows of its host until the host makes a new receiving flow for the id.
C31_ReceiverOnFin ==
    [][\A f \in Senders :
         LET h == rf[f].src_host_id
             out == hosts[h].outgoing_packets
             out1 == hosts'[h].outgoing_packets
         IN /\ HandlesFin(f) =>
                  /\ Len(out1) = Len(out) + 1
                  /\ Front(out1) = out
                  /\ Last(out1).packet_type = fin_packet
                  /\ Last(out1).flow_id = f
                  /\ Last(out1).src = h
                  /\ Last(out1).dest = sf[f].src_host_id
                  /\ Last(out1).seq_num = FIN_SEQ
                  /\ rf'[f].pc = "ended"
                  /\ f \notin hosts'[h].flows
            /\ (rf[f].pc = "ended" /\ rf'[f].pc = "ended") =>
                  /\ rf'[f].received_packets = rf[f].received_packets
                  /\ rf'[f].req_num = rf[f].req_num
                  /\ f \notin hosts'[h].flows
                  /\ \A i \in 1..Len(out1) :
                        (out1[i].flow_id = f) => \E j \in 1..Len(out) : out[j] = out1[i]
            /\ (rf[f].pc = "ended" /\ rf'[f].pc # "ended") =>
                  rf'[f].pc = "new" /\ rf'[f].req_num = 1]_vars

\* a receiving flow that acknowledged data has ended on a FIN
C31_Witness ==
    \E f \in Senders :
        /\ rf[f].pc = "ended"
        /\ rf[f].req_num > 1
        /\ f \notin hosts[rf[f].src_host_id].flows

\* every event of the instant now has been processed
InstantOver == finished \/ (Running /\ head.t > now)

\* C32: every FIN that the destination host of a flow takes from its link is
\* answered within the same instant by one FIN handed to that host by the
\* receiving flow of the id, which the host makes anew when the earlier one
\* has ended; a FIN that comes to a host without a receiving flow of its id
\* puts the id back among the flows of the host.
C32_FinAlwaysAnswered ==
    /\ [](\A f \in Senders :
            /\ hist.replies[f] <= hist.fins[f]
            /\ hist.fins[f] <= hist.replies[f] + 1
            /\ (halted = "" /\ InstantOver) => hist.fins[f] = hist.replies[f])
    /\ [][\A f \in Senders :
            (hist'.fins[f] = hist.fins[f] + 1 /\ rf[f].pc \in {"none", "ended"}) =>
                /\ rf'[f].pc = "new"
                /\ rf'[f].req_num = 1
                /\ rf'[f].dest_host_id = sf[f].src_host_id
                /\ f \in hosts'[head.who].flows]_vars

\* the receiving flow made for a FIN that was sent again has replied to it
\* and the sending flow has ended on that reply
C32_Witness ==
    \E f \in Senders :
        /\ hist.fins[f] = 2
        /\ hist.replies[f] = 2
        /\ rf[f].pc = "ended"
        /\ rf[f].req_num = 1
        /\ sf[f].end_time # NoneVal

\* the step in which Link.transmit picks a packet: it enters or goes round
\* its inner loop and finds a buffer that is not empty
PicksPacket ==
    /\ Running
    /\ head.k \in {"busy", "link_ser"}
    /\ link'.pc = "serializing"

\* the index of the end point with the smaller id, and of the end point
\* that the link has first
SmallerId == IF device_ids[1] < device_ids[2] THEN 0 ELSE 1
FirstEndPoint == 0

\* the pick of Link.transmit, with heads of the same timestamp served from
\* the buffer of index tie
PickStep(tie) ==
    LET b == link'.buffer
    IN PicksPacket =>
         /\ Len(b[1]) = 0 => link'.idx = 1
         /\ Len(b[2]) = 0 => link'.idx = 0
         /\ (Len(b[1]) > 0 /\ Len(b[2]) > 0) =>
               /\ b[1][1].ts < b[2][1].ts => link'.idx = 0
               /\ b[2][1].ts < b[1][1].ts => link'.idx = 1
               /\ b[1][1].ts = b[2][1].ts => link'.idx = tie

\* C33, as stated: heads of the same timestamp are served from the end
\* point with the smaller id.
C33_TransmitSelection_ById == [][PickStep(SmallerId)]_vars

\* C33, amended: Link.transmit serves the buffer whose head has the earliest
\* enqueue timestamp, the only buffer that holds a packet when the other is
\* empty, and with heads of the same timestamp the buffer of the end point
\* that the link has first, whatever its id.
C33_TransmitSelection == [][PickStep(FirstEndPoint)]_vars

\* on a link from host 1 to host 0 both buffers have heads of the same
\* timestamp and the link serializes the packet of host 1
C33_Witness ==
    /\ device_ids = <<1, 0>>
    /\ link.pc = "serializing"
    /\ Len(link.buffer[1]) > 0
    /\ Len(link.buffer[2]) > 0
    /\ link.buffer[1][1].ts = link.buffer[2][1].ts
    /\ link.idx = 0

\* the send_packet processes of direction x of the link that have not yet
\* handed their packet over
InFlight(x) ==
    {i \in 1..Len(queue) : /\ queue[i].k \in {"deliver_init", "deliver"}
                           /\ queue[i].who = x - 1}

\* Link.transmit will go on without another enqueue: it waits for the end of
\* a serialization, or busy has been fired and is about to be processed
LinkAwake ==
    \/ /\ link.pc = "serializing"
       /\ \E i \in 1..Len(queue) : queue[i].k = "link_ser"
    \/ /\ link.busy = "triggered"
       /\ \E i \in 1..Len(queue) : queue[i].k = "busy"

\* the aids of a sequence of records
Aids(q) == [i \in 1..Len(q) |-> q[i].aid]

\* C34: every packet admitted to a buffer of the link is popped by
\* Link.transmit and delivered exactly once, to the end point opposite to
\* the one that enqueued it, link_delay after the end of its serialization:
\* on each direction the packets admitted are, in order, those popped and
\* then those waiting in the buffer; the packets popped are, in order, those
\* delivered, each link_delay after its pop, and then those in flight, each
\* with exactly one send_packet process due link_delay after its pop; a
\* delivery hands the packet to the end point that did not enqueue it and to
\* no other; and while a buffer holds a packet Link.transmit is serializing
\* or its busy event has been fired, so no wake-up is missed.
C34_LinkDelivery ==
    /\ [](\A x \in 1..2 :
            LET adm == hist.admitted[x]
                pop == hist.popped[x]
                del == hist.delivered[x]
            IN /\ Aids(adm) = Aids(pop) \o Aids(link.buffer[x])
               /\ Len(pop) = Len(del) + Cardinality(InFlight(x))
               /\ \A i \in 1..Len(del) :
                     /\ del[i].aid = pop[i].aid
                     /\ del[i].at = pop[i].at + link.link_delay
               /\ \A i \in (Len(del) + 1)..Len(pop) :
                     \E j \in InFlight(x) :
                         /\ queue[j].gen = pop[i].aid
                         /\ queue[j].t = IF queue[j].k = "deliver"
                                           THEN pop[i].at + link.link_delay
                                           ELSE pop[i].at
                         /\ \A k \in InFlight(x) : queue[k].gen = pop[i].aid => k = j)
    /\ []((Running /\ ~buffer_empty(link)) => LinkAwake)
    /\ [][Pops("deliver") =>
            LET from == device_ids[head.who + 1]
                to == head.pkt.dest
            IN /\ to # from
               /\ to \in HostIds
               /\ hosts'[to].incoming_packets =
                     Append(hosts[to].incoming_packets, head.pkt)
               /\ \A g \in HostIds \ {to} :
                     hosts'[g].incoming_packets = hosts[g].incoming_packets]_vars

\* the buffers became empty at this instant, a packet has been enqueued
\* since and has fired busy again, after deliveries on both directions and
\* an enqueue during a serialization
C34_Witness ==
    /\ Running
    /\ \A x \in 1..2 : Len(hist.delivered[x]) >= 2
    /\ \E x \in 1..2 : /\ Len(hist.popped[x]) > 0
                       /\ hist.popped[x][Len(hist.popped[x])].at = now
    /\ \E x \in 1..2 : /\ Len(link.buffer[x]) > 0
                       /\ link.buffer[x][1].ts = now
    /\ link.busy = "triggered"
    /\ link.pc = "wait_busy"
    /\ \E i \in 1..Len(queue) : queue[i].k = "busy"

\* the sum of the lengths of the packets of a buffer
RECURSIVE BufferBytes(_)
BufferBytes(b) ==
    IF b = <<>> THEN 0 ELSE Head(b).pkt.length + BufferBytes(Tail(b))

\* C35: for each direction of the link buffer_used is the sum of the lengths
\* of the packets in the buffer, the packet being serialized included until
\* it is popped, and it is not negative.
C35_BufferUsed ==
    \A x \in 1..2 : /\ link.buffer_used[x] = BufferBytes(link.buffer[x])
                    /\ link.buffer_used[x] >= 0

\* the link is serializing a packet of a buffer that holds packets of
\* different lengths, after it has popped packets of both directions
C35_Witness ==
    /\ link.pc = "serializing"
    /\ \A x \in 1..2 : Len(hist.popped[x]) >= 1
    /\ \E x \in 1..2 :
          /\ x = link.idx + 1
          /\ \E i, j \in 1..Len(link.buffer[x]) :
                link.buffer[x][i].pkt.length # link.buffer[x][j].pkt.length

\* the initial data of flow f is a whole number of data packets
WholePackets(f) == hist.init_data[f] % DATA_PCK_SIZE = 0

\* the number of data packets of the initial data of flow f
LastSeq(f) == hist.init_data[f] \div DATA_PCK_SIZE

\* the packets that are with a host, in a buffer of the link or in flight
PacketsAbout ==
    UNION {{h.outgoing_packets[i] : i \in 1..Len(h.outgoing_packets)} :
              h \in {hosts[g] : g \in HostIds}}
    \cup UNION {{link.buffer[x][i].pkt : i \in 1..Len(link.buffer[x])} : x \in 1..2}
    \cup {queue[i].pkt : i \in 1..Len(queue)}
    \cup UNION {{h.incoming_packets[i] : i \in 1..Len(h.incoming_packets)} :
                   h \in {hosts[g] : g \in HostIds}}

\* C36: for a sending flow whose initial data is a whole number N of data
\* packets, data_amt is never negative and no Data packet with a sequence
\* number above N is emitted: none is with a host, in the link or in flight,
\* and the retransmission on the third duplicate ACK sends batch_start, which
\* is at most N.
C36_NoOverrun ==
    /\ [](\A f \in Senders :
            WholePackets(f) =>
              /\ sf[f].data_amt >= 0
              /\ sf[f].window_end <= LastSeq(f)
              /\ \A p \in PacketsAbout :
                    (p.packet_type = data_packet /\ p.flow_id = f)
                       => p.seq_num \in 1..LastSeq(f))
    /\ [][\A f \in Senders :
            (/\ WholePackets(f)
             /\ HandlesAck(f)
             /\ Last(sf[f].received_packets).packet_type = ack_packet
             /\ Retransmits(sf[f], Last(sf[f].received_packets), head.t))
               => LET h == sf[f].src_host_id
                  IN /\ sf[f].batch_start \in 1..LastSeq(f)
                     /\ hosts'[h].outgoing_packets =
                           Append(hosts[h].outgoing_packets,
                                  DataPacket(h, f, sf[f].dest_host_id, head.t,
                                             sf[f].batch_start))]_vars

\* the third duplicate ACK asks again for a data packet of a flow of several
\* whole packets, part of which has been credited
C36_Witness ==
    \E f \in Senders :
        /\ WholePackets(f)
        /\ LastSeq(f) >= 2
        /\ HandlesAck(f)
        /\ Last(sf[f].received_packets).packet_type = ack_packet
        /\ Retransmits(sf[f], Last(sf[f].received_packets), head.t)
        /\ sf[f].batch_start > 1
        /\ sf[f].data_amt = (LastSeq(f) - sf[f].batch_start + 1) * DATA_PCK_SIZE

\* the sending flow f is in its loop of send_data rounds
InSending(f) == sf[f].run_pc \in {"in_send_data", "wait_batch"}

\* the host the sending flow f sends to holds a receiving flow for f
HasReceiver(f) ==
    /\ rf[f].exists
    /\ f \in hosts[sf[f].dest_host_id].flows

\* C37: the sender credits no data that the receiver has not taken in order:
\* while a sending flow is in its loop of send_data rounds, its batch_start
\* is at most req_num of its receiving flow when there is one, and is still
\* 1 when there is none yet; the step of the monitor that credits an ACK
\* leaves batch_start at the req_num that ACK carries, which is at most that
\* of the receiving flow.
C37_CreditBehindReceiver ==
    /\ [](\A f \in Senders :
            InSending(f) =>
              /\ HasReceiver(f) => sf[f].batch_start <= rf[f].req_num
              /\ ~HasReceiver(f) => sf[f].batch_start = 1)
    /\ [][\A f \in Senders :
            (HandlesAck(f) /\ InSending(f) /\ sf'[f].batch_start # sf[f].batch_start)
               => /\ sf'[f].batch_start = Last(sf[f].received_packets).seq_num
                  /\ sf'[f].batch_start > sf[f].batch_start
                  /\ HasReceiver(f)
                  /\ sf'[f].batch_start <= rf[f].req_num]_vars

\* a sending flow that has sent data again is credited an ACK while its
\* receiving flow is already further on
C37_Witness ==
    \E f \in Senders :
        /\ InSending(f)
        /\ HasReceiver(f)
        /\ HandlesFreshAck(f)
        /\ Last(sf[f].received_packets).seq_num > sf[f].batch_start
        /\ Last(sf[f].received_packets).seq_num < rf[f].req_num
        /\ sf[f].batch_start > 1
        /\ sf[f].window_start > 1

\* run of the sending flow f is past its start and before its last statements
Started(f) == sf[f].run_pc \in {"in_send_data", "wait_batch", "wait_fin"}

\* this step is an entry of slow start of the Tahoe flow f: its monitor
\* takes the third duplicate ACK, or run finds after a batch wait that
\* received_batch_event has not fired
EntersSlowStart(f) ==
    /\ Running
    /\ sf[f].cc = "Tahoe"
    /\ head.who = f
    /\ \/ /\ HandlesAck(f)
          /\ Last(sf[f].received_packets).packet_type = ack_packet
          /\ Retransmits(sf[f], Last(sf[f].received_packets), head.t)
       \/ /\ head.k = "cond"
          /\ sf[f].run_pc = "wait_batch"
          /\ ~Triggered(sf[f].received_batch_event)

\* C38: a Tahoe flow that has started and not finished has window_size >= 1
\* and ssthresh >= 2; each entry of slow start sets window_size to exactly 1
\* and ssthresh to the larger of half the window and 2, and in every other
\* step the window does not shrink and ssthresh stays.
C38_TahoeWindow ==
    /\ [](\A f \in Senders :
            (sf[f].cc = "Tahoe" /\ Started(f)) =>
               /\ RGeq(sf[f].window_size, RInt(1))
               /\ RGeq(sf[f].ssthresh, RInt(2)))
    /\ [][\A f \in Senders :
            (sf[f].cc = "Tahoe" /\ Started(f) /\ sf'[f].run_pc # "done") =>
               IF EntersSlowStart(f)
                 THEN /\ sf'[f].window_size = RInt(1)
                      /\ RGeq(sf'[f].ssthresh, RInt(2))
                      /\ RGeq(sf'[f].ssthresh,
                              Rat(sf[f].window_size.n, 2 * sf[f].window_size.d))
                      /\ \/ sf'[f].ssthresh = RInt(2)
                         \/ sf'[f].ssthresh =
                               Rat(sf[f].window_size.n, 2 * sf[f].window_size.d)
                      /\ ~sf'[f].is_CA
                 ELSE /\ RGeq(sf'[f].window_size, sf[f].window_size)
                      /\ sf'[f].ssthresh = sf[f].ssthresh]_vars

\* a Tahoe flow in congestion avoidance, its window grown again since an
\* earlier entry of slow start, enters slow start once more
C38_Witness ==
    \E f \in Senders :
        /\ Started(f)
        /\ EntersSlowStart(f)
        /\ sf[f].is_CA
        /\ RGeq(sf[f].window_size, RInt(2))
        /\ sf[f].ssthresh # RInt(INIT_SSTHRESH)

\* a routing update handed to Router.process_routing_packet of a router
\* that is not in a dynamic routing phase is dropped: the router, the link
\* and the count of enqueues stay as they were and nothing is raised
C39_DropOutsidePhase ==
    [][(Pops("router_proc") /\ ~router.dynamic_routing) =>
          /\ router' = router
          /\ link' = link
          /\ hist'.attempts = hist.attempts
          /\ halted' = ""]_vars

\* Router.update_routing_table puts the table built in the phase in place
\* and empties dist_estimates and new_routing_table
C39_TableReplaced ==
    [][Pops("router_update") =>
          /\ router'.routing_table = router.new_routing_table
          /\ router'.dist_estimates = <<>>
          /\ router'.new_routing_table = <<>>]_vars

\* a dynamic routing phase that Router.dynamic_routing begins runs to its
\* end: its first step raises nothing and leaves the end of the phase
\* scheduled DYNAMIC_ROUTING_TIME later
C39_PhaseEnds ==
    [][Pops("router_session") =>
          /\ halted' = ""
          /\ \E i \in 1..Len(queue') :
                /\ queue'[i].k = "router_update"
                /\ queue'[i].t = head.t + DYNAMIC_ROUTING_TIME]_vars

====
